---- MODULE Spec2Model ----
(***************************************************************************)
(* A model of the desktop monitoring agent (src/desktop_agent.py) and of   *)
(* the server's pairing endpoint (src/monitoring_backend/monitoring).      *)
(*                                                                         *)
(* Spec          the controller's life cycle: construction, pairing,       *)
(*               initial settings fetch, the scheduler thread and its      *)
(*               jobs, signals, shutdown, process restarts.                *)
(* SpecActivity  the keystroke / click counters, their lock, and the       *)
(*               activity flush, one statement per step.                   *)
(* SpecSched     the scheduler thread against a clock.                     *)
(* SpecShutdown  a running agent and the signals that end it, with the     *)
(*               threads' steps taken sooner or later.                     *)
(* SpecClient    the four authenticated operations called on an agent      *)
(*               constructed from any config file.                         *)
(* SpecConfig    the ConfigStore alone: the config is changed, saved and   *)
(*               loaded again.                                             *)
(* SpecStartup   one start of the agent, up to its main loop, on config    *)
(*               files that may also hold values of the wrong type.        *)
(* SpecWindow    the activity flush called by the schedule, against the    *)
(*               clock its timestamps are read from.                       *)
(***************************************************************************)
EXTENDS Integers, Sequences, FiniteSets, TLC

VARIABLES
    \* ---- controller (Spec) ----
    config,            \* self.config, a dict over ConfigKeys
    config_file,       \* agent_config.json, see File below
    pc,                \* where the main thread stands
    exit_code,         \* NotExited until the process ends, then its status
    pairing_code,      \* what the pairing prompt returned
    resp,              \* response the main thread is about to process
    stop_event,        \* threading.Event
    finally_pending,   \* run()'s try block is on the stack, finally not begun
    keyboard_listener, \* "None" or "started"
    mouse_listener,    \* "None" or "started"
    jobs,              \* jobs registered with the schedule module
    sched_pc,          \* where the scheduler thread stands
    pending,           \* jobs run_pending has still to run in this pass
    cur_job,           \* job the scheduler thread is executing
    temp_file,         \* a screenshot temporary file is on disk
    net,               \* network request sent by the last step, or "none"
    auth_rejected,     \* an authenticated call got 401/403 in this process
    log,               \* what this process logged / did (a set of marks)
    n_shutdown,        \* how many times "Agent shutdown complete" was logged
    signals_left,      \* signals the environment may still deliver
    restarts_left,     \* process starts the environment may still make
    \* ---- server ----
    pairing_used,      \* PairingToken.used, per code
    pairing_expired,   \* now >= PairingToken.expires_at, per code
    paired_codes,      \* codes for which pair_agent logged "Agent paired successfully"
    \* ---- activity counters (SpecActivity) ----
    activity_lock,     \* holder of self.activity_lock, or "free"
    keystroke_count,
    mouse_click_count,
    apc,               \* position of each thread of SpecActivity
    tmp,               \* each thread's local copy of a counter
    sample,            \* the last sample built by log_activity
    uploads,           \* outcomes of the requests that carried that sample
    taken,             \* increments that took the lock since the last flush
    last_activity_log, \* self.last_activity_log
    events_left,       \* input events the environment may still deliver
    \* ---- scheduler against a clock (SpecSched) ----
    now,               \* the clock, in seconds
    next_run,          \* schedule's next_run, per job
    running,           \* job the scheduler thread executes, or "none"
    remaining,         \* seconds the running job still takes
    runs               \* how many ticks each job has started

ctlVars == <<config, config_file, pc, exit_code, pairing_code, resp, stop_event,
             finally_pending, keyboard_listener, mouse_listener, jobs, sched_pc,
             pending, cur_job, temp_file, net, auth_rejected, log, n_shutdown,
             signals_left, restarts_left, pairing_used, pairing_expired,
             paired_codes>>
actVars == <<activity_lock, keystroke_count, mouse_click_count, apc, tmp, sample,
             uploads, taken, last_activity_log, events_left>>
schVars == <<now, next_run, running, remaining, runs>>
vars == <<ctlVars, actVars, schVars>>

(***************************************************************************)
(* Bounds of the model.                                                    *)
(***************************************************************************)
MaxSignals == 1
MaxRestarts == 2
MaxDue == 1       \* jobs due in one pass of run_pending

None == "None"
NotExited == -1

(***************************************************************************)
(* ConfigStore: load_config / save_config.                                 *)
(***************************************************************************)
ConfigKeys == {"agent_token", "user_pk", "first_run_complete",
               "screenshot_interval_seconds", "activity_log_interval_seconds",
               "enable_screenshot_capture", "enable_keystroke_logging",
               "enable_mouse_logging", "monitoring_active"}

default_config ==
    [agent_token |-> None, user_pk |-> None, first_run_complete |-> FALSE,
     screenshot_interval_seconds |-> 300, activity_log_interval_seconds |-> 60,
     enable_screenshot_capture |-> TRUE, enable_keystroke_logging |-> TRUE,
     enable_mouse_logging |-> TRUE, monitoring_active |-> FALSE]

\* dict.update: the keys of f override those of d.
Update(d, f) == [k \in DOMAIN d \cup DOMAIN f |-> IF k \in DOMAIN f THEN f[k] ELSE d[k]]

\* dict.get(key, dflt)
Get(d, k, dflt) == IF k \in DOMAIN d THEN d[k] ELSE dflt

EmptyDict == [k \in {} |-> None]

\* The file on disk: kind is "absent" (no file), "corrupt" (json.load raises) or
\* "json" (a dict, possibly with keys missing); data is the dict json.load
\* returns for it.
File(kind, data) == [kind |-> kind, data |-> data]
AbsentFile == File("absent", EmptyDict)
CorruptFile == File("corrupt", EmptyDict)

\* json.dump / json.load on the config dict.  The values of a config are
\* None or a string (agent_token, user_pk), booleans (the flags and toggles)
\* and integers (the intervals); each is written as the JSON token of its
\* type and read back from it.
NullableKeys == {"agent_token", "user_pk"}
NumberKeys == {"screenshot_interval_seconds", "activity_log_interval_seconds"}
\* Under an interval key, a value of the file that is not a number (a string,
\* null, a list): a hand-edited or damaged file may hold one.
NotANumber == -1
IsNumber(v) == v # NotANumber
JsonEncode(k, v) ==
    CASE k \in NullableKeys ->
            IF v = None THEN [t |-> "null"] ELSE [t |-> "string", s |-> v]
      [] k \in NumberKeys ->
            IF IsNumber(v) THEN [t |-> "number", n |-> v] ELSE [t |-> "other"]
      [] OTHER -> [t |-> IF v THEN "true" ELSE "false"]
JsonDecode(j) ==
    CASE j.t = "null" -> None
      [] j.t = "string" -> j.s
      [] j.t = "number" -> j.n
      [] j.t = "other" -> NotANumber
      [] OTHER -> j.t = "true"
json_dump(d) == [k \in DOMAIN d |-> JsonEncode(k, d[k])]
json_load(text) == [k \in DOMAIN text |-> JsonDecode(text[k])]

\* (a variant in which the defaults override what the file holds)
load_config_defaultsWin(file) ==
    IF file.kind = "json" THEN Update(file.data, default_config) ELSE default_config

\* load_config: defaults, overridden by the file when it exists and parses.
load_config(file) ==
    IF file.kind = "json" THEN Update(default_config, file.data) ELSE default_config

\* save_config: open(..., 'w') truncates the file, json.dump writes it; an error
\* is logged and swallowed.  io is what the file system does with the write:
\*   "ok"       the dump completes
\*   "no_open"  open() fails, the file keeps its content
\*   "torn"     the write fails after the truncation: the file does not parse
SaveOutcomes == {"ok", "no_open", "torn"}
save_config(cfg, file, io) ==
    CASE io = "ok" -> File("json", json_load(json_dump(cfg)))
      [] io = "no_open" -> file
      [] OTHER -> CorruptFile
\* save_config logs "Error saving config" when the write raised
SaveLog(io) == IF io = "ok" THEN {} ELSE {"save_error"}

\* (a variant of save_config without its except clause)
SaveRaises_propagate(io) == io # "ok"

\* save_config catches the error of a failed write: its caller never sees it
SaveRaises(io) == FALSE

(***************************************************************************)
(* The server's pairing endpoint: views.pair_agent, PairingToken.is_valid. *)
(***************************************************************************)
ServerCodes == {"c1"}            \* codes for which a PairingToken row exists
Codes == ServerCodes \cup {"bad"}
ServerAgentToken == "tok1"       \* AgentToken.token of the code's user
ServerUserPk == "u1"             \* user.pk of the code's user

\* (a variant that tests the expiry only)
is_valid_ignoreUsed(used, expired) == ~expired

\* PairingToken.is_valid
is_valid(used, expired) == ~used /\ ~expired

\* pair_agent, for a request that reaches the view: the response, given
\* whether the work after marking the token used raises (fault).
PairStatus(code, fault) ==
    IF code \notin ServerCodes THEN 400
    ELSE IF ~is_valid(pairing_used[code], pairing_expired[code]) THEN 400
    ELSE IF fault THEN 500 ELSE 200

\* pair_agent marks the token used once is_valid has passed.
PairMarksUsed(code) ==
    code \in ServerCodes /\ is_valid(pairing_used[code], pairing_expired[code])

PairBody(status) ==
    IF status = 200 THEN [agent_token |-> ServerAgentToken, user_pk |-> ServerUserPk]
    ELSE [error |-> "rejected"]

(***************************************************************************)
(* ServerClient: the responses the agent may see.                          *)
(***************************************************************************)
NetError == 0                     \* requests raised (timeout, connection error)
NoResp == [kind |-> "none", status |-> NetError, body |-> EmptyDict]
Resp(kind, status, body) == [kind |-> kind, status |-> status, body |-> body]

\* What may happen to a 200 pairing body between the view and response.json():
\* the keys the agent reads may be missing.
Mangles == {"intact", "no_user_pk", "no_agent_token"}
Mangle(body, m) ==
    CASE m = "intact" -> body
      [] m = "no_user_pk" -> [k \in DOMAIN body \ {"user_pk"} |-> body[k]]
      [] OTHER -> [k \in DOMAIN body \ {"agent_token"} |-> body[k]]

\* Status codes of the authenticated endpoints, as the agent sees them.
AuthStatuses == {200, 400, 401, 403, 500, NetError}

\* Bodies of a 200 get-settings response; a key may be missing.
SettingsBodies ==
    { [enable_screenshot_capture |-> FALSE, enable_keystroke_logging |-> TRUE,
       enable_mouse_logging |-> FALSE, screenshot_interval_seconds |-> 300,
       activity_log_interval_seconds |-> 60, user_pk |-> ServerUserPk],
      [enable_screenshot_capture |-> FALSE, enable_keystroke_logging |-> FALSE,
       enable_mouse_logging |-> FALSE, screenshot_interval_seconds |-> 300,
       activity_log_interval_seconds |-> 60, user_pk |-> ServerUserPk],
      EmptyDict }

\* get_auth_headers: None when the config holds no token.
HasToken(cfg) == cfg.agent_token # None

\* (a variant that builds the header without looking at the token)
get_auth_headers_noTest(cfg) == "AgentToken"

get_auth_headers(cfg) == IF HasToken(cfg) THEN cfg.agent_token ELSE None

\* fetch_settings_from_server, the config.update of a 200 response.
ApplySettings(cfg, settings) ==
    Update(cfg,
      [user_pk |-> Get(settings, "user_pk", cfg.user_pk),
       screenshot_interval_seconds |-> Get(settings, "screenshot_interval_seconds", 300),
       activity_log_interval_seconds |-> Get(settings, "activity_log_interval_seconds", 60),
       enable_screenshot_capture |-> Get(settings, "enable_screenshot_capture", TRUE),
       enable_keystroke_logging |-> Get(settings, "enable_keystroke_logging", TRUE),
       enable_mouse_logging |-> Get(settings, "enable_mouse_logging", TRUE),
       monitoring_active |-> \/ Get(settings, "enable_screenshot_capture", FALSE)
                             \/ Get(settings, "enable_keystroke_logging", FALSE)
                             \/ Get(settings, "enable_mouse_logging", FALSE)])

\* (a variant that forgets to mark the pairing complete)
PairApply_noFlag(cfg, r) ==
    IF r.status # 200 \/ "agent_token" \notin DOMAIN r.body THEN cfg
    ELSE IF "user_pk" \notin DOMAIN r.body
         THEN [cfg EXCEPT !.agent_token = r.body.agent_token]
    ELSE [cfg EXCEPT !.agent_token = r.body.agent_token,
                     !.user_pk = r.body.user_pk]

\* pair_with_server, from the response on: the config it leaves in memory.
\* data['agent_token'] is read and stored before data['user_pk'] is read.
PairApply(cfg, r) ==
    IF r.status # 200 \/ "agent_token" \notin DOMAIN r.body THEN cfg
    ELSE IF "user_pk" \notin DOMAIN r.body
         THEN [cfg EXCEPT !.agent_token = r.body.agent_token]
    ELSE [cfg EXCEPT !.agent_token = r.body.agent_token,
                     !.user_pk = r.body.user_pk,
                     !.first_run_complete = TRUE]

\* (a variant in which pair_with_server reports success whatever was answered)
PairOk_always(r) == TRUE

\* pair_with_server returns True
PairOk(r) == r.status = 200 /\ {"agent_token", "user_pk"} \subseteq DOMAIN r.body

\* (a variant that tests the account identifier in place of the credential)
NeedsPairing_wrongKey(cfg) == ~cfg.first_run_complete \/ cfg.user_pk = None

\* (a variant with the second "not" missing)
NeedsPairing_missingNot(cfg) == ~cfg.first_run_complete \/ HasToken(cfg)

\* initial_setup's test: pairing is needed
NeedsPairing(cfg) == ~cfg.first_run_complete \/ ~HasToken(cfg)

(***************************************************************************)
(* The process: construction and run() up to the main loop.                *)
(***************************************************************************)
Alive == pc \notin {"boot", "exited"}

\* Files the agent may find at its first start: none, an unreadable one, one
\* written by an earlier paired run, and hand-edited ones with keys missing.
PairedFile == File("json", [default_config EXCEPT !.agent_token = ServerAgentToken,
                                !.user_pk = ServerUserPk, !.first_run_complete = TRUE,
                                !.monitoring_active = TRUE])
InitFiles == { AbsentFile, CorruptFile, PairedFile,
               File("json", [agent_token |-> ServerAgentToken]),
               File("json", [agent_token |-> ServerAgentToken, first_run_complete |-> TRUE]) }

\* The scheduler thread is a daemon: it dies with the process.
KillDaemon(s) == IF s \in {"none", "done"} THEN s ELSE "killed"

\* DesktopAgent.__init__ in a fresh process
Construct ==
    /\ pc \in {"boot", "exited"}
    /\ restarts_left > 0
    /\ restarts_left' = restarts_left - 1
    /\ config' = load_config(config_file)
    /\ pc' = "run"
    /\ exit_code' = NotExited
    /\ pairing_code' = None
    /\ resp' = NoResp
    /\ stop_event' = FALSE
    /\ finally_pending' = FALSE
    /\ keyboard_listener' = None
    /\ mouse_listener' = None
    /\ jobs' = {}
    /\ sched_pc' = "none"
    /\ pending' = {}
    /\ cur_job' = None
    /\ net' = "none"
    /\ auth_rejected' = FALSE
    /\ log' = {}
    /\ n_shutdown' = 0
    /\ UNCHANGED <<config_file, temp_file, signals_left, pairing_used, pairing_expired, paired_codes>>
    /\ UNCHANGED <<actVars, schVars>>

mainFrame == <<config_file, temp_file, signals_left, restarts_left, pairing_used,
               pairing_expired, paired_codes, sched_pc, pending, cur_job, auth_rejected,
               n_shutdown, stop_event, finally_pending>>

\* initial_setup, the test of line 541 and the prompt
InitialSetup ==
    /\ pc = "run"
    /\ IF NeedsPairing(config)
       THEN \E code \in Codes \cup {None} :
              /\ pairing_code' = code
              /\ log' = log \cup {"prompt"} \cup
                        (IF code = None THEN {"setup_failed"} ELSE {})
              /\ pc' = IF code = None THEN "setup_failed" ELSE "pairing"
       ELSE /\ pc' = "fetch_initial"
            /\ UNCHANGED <<pairing_code, log>>
    /\ net' = "none"
    /\ UNCHANGED <<config, exit_code, resp, keyboard_listener, mouse_listener, jobs>>
    /\ UNCHANGED mainFrame
    /\ UNCHANGED <<actVars, schVars>>

\* pair_with_server up to requests.post returning or raising; the server runs
\* pair_agent when the request reaches it.
PairSend ==
    /\ pc = "pairing"
    /\ \E reaches \in BOOLEAN, fault \in BOOLEAN, lost \in BOOLEAN, m \in Mangles :
         LET status == PairStatus(pairing_code, fault) IN
         /\ reaches \/ (~fault /\ ~lost /\ m = "intact")
         /\ (status # 200) => m = "intact"
         /\ pairing_used' = IF reaches /\ PairMarksUsed(pairing_code)
                            THEN [pairing_used EXCEPT ![pairing_code] = TRUE]
                            ELSE pairing_used
         /\ paired_codes' = IF reaches /\ status = 200
                            THEN paired_codes \cup {pairing_code} ELSE paired_codes
         /\ resp' = IF reaches /\ ~lost
                    THEN Resp("pair", status, Mangle(PairBody(status), m))
                    ELSE Resp("pair", NetError, EmptyDict)
    /\ net' = "pair"
    /\ log' = log \cup {"pair_request"}
    /\ pc' = "pair_recv"
    /\ UNCHANGED <<config, config_file, exit_code, pairing_code, keyboard_listener,
                   mouse_listener, jobs, temp_file, signals_left, restarts_left, pairing_expired,
                   sched_pc, pending, cur_job, auth_rejected, n_shutdown, stop_event,
                   finally_pending>>
    /\ UNCHANGED <<actVars, schVars>>

\* pair_with_server from the response on, and initial_setup's message box
PairRecv ==
    /\ pc = "pair_recv"
    /\ config' = PairApply(config, resp)
    /\ IF PairOk(resp)
       THEN \E io \in SaveOutcomes :
                 /\ config_file' = save_config(config', config_file, io)
                 /\ log' = log \cup SaveLog(io) \cup
                           (IF SaveRaises(io) THEN {"setup_failed"} ELSE {})
                 /\ pc' = IF SaveRaises(io) THEN "setup_failed" ELSE "fetch_initial"
       ELSE /\ config_file' = config_file
            /\ log' = log \cup {"setup_failed"}
            /\ pc' = "setup_failed"
    /\ resp' = NoResp
    /\ net' = "none"
    /\ UNCHANGED <<exit_code, pairing_code, keyboard_listener, mouse_listener, jobs,
                   temp_file,
                   signals_left, restarts_left, pairing_used, pairing_expired, sched_pc,
                   pending, cur_job, auth_rejected, n_shutdown, stop_event,
                   finally_pending, paired_codes>>
    /\ UNCHANGED <<actVars, schVars>>

\* (a variant in which run() ignores what initial_setup returned)
SetupFailedExit_continue ==
    /\ pc = "setup_failed"
    /\ pc' = "fetch_initial"
    /\ net' = "none"
    /\ UNCHANGED <<config, exit_code, pairing_code, resp, log, keyboard_listener,
                   mouse_listener, jobs>>
    /\ UNCHANGED mainFrame
    /\ UNCHANGED <<actVars, schVars>>

\* run(): initial_setup returned False, sys.exit(1)
SetupFailedExit ==
    /\ pc = "setup_failed"
    /\ pc' = "exited"
    /\ exit_code' = 1
    /\ net' = "none"
    /\ UNCHANGED <<config, pairing_code, resp, log, keyboard_listener, mouse_listener, jobs>>
    /\ UNCHANGED mainFrame
    /\ UNCHANGED <<actVars, schVars>>

\* fetch_settings_from_server, whole: the config, the file and what it returns.
\* status and body are the server's answer, io the outcome of save_config.
\* (FetchConfig_anyStatus is a variant that applies the body of any response.)
FetchConfig_anyStatus(cfg, status, body) ==
    IF HasToken(cfg) THEN ApplySettings(cfg, body) ELSE cfg

FetchConfig(cfg, status, body) ==
    IF HasToken(cfg) /\ status = 200 THEN ApplySettings(cfg, body) ELSE cfg

FetchFile(cfg, file, status, body, io) ==
    IF HasToken(cfg) /\ status = 200
    THEN save_config(ApplySettings(cfg, body), file, io) ELSE file
FetchNet(cfg) == IF HasToken(cfg) THEN "get-settings" ELSE "none"

\* fetch_settings_from_server returns True
FetchOk(cfg, status) == HasToken(cfg) /\ status = 200

\* (a variant in which run() treats a failed initial fetch like a failed setup)
AfterFetch_fatal(ok) == IF ok THEN "check_active" ELSE "setup_failed"

\* run(): whatever the initial fetch returned, the monitoring_active test is next
AfterFetch(ok) == "check_active"

\* run(): the initial settings fetch; a failure is logged as a warning and
\* ignored
FetchInitial ==
    /\ pc = "fetch_initial"
    /\ \E status \in AuthStatuses, body \in SettingsBodies, io \in SaveOutcomes :
         /\ (status # 200) => (body = EmptyDict /\ io = "ok")
         /\ config' = FetchConfig(config, status, body)
         /\ config_file' = FetchFile(config, config_file, status, body, io)
         /\ auth_rejected' = (auth_rejected \/ (HasToken(config) /\ status \in {401, 403}))
         /\ log' = log \cup {"fetch"} \cup
                   (IF FetchOk(config, status) THEN SaveLog(io) ELSE {"fetch_warning"})
         /\ pc' = AfterFetch(FetchOk(config, status))
    /\ net' = FetchNet(config)
    /\ UNCHANGED <<exit_code, pairing_code, resp, keyboard_listener, mouse_listener, jobs,
                   temp_file, signals_left, restarts_left, pairing_used, pairing_expired,
                   sched_pc, pending, cur_job, n_shutdown, stop_event, finally_pending, paired_codes>>
    /\ UNCHANGED <<actVars, schVars>>

\* (a variant that looks at the capability toggles in place of the flag)
MonitoringActive_anyToggle(cfg) ==
    cfg.enable_screenshot_capture \/ cfg.enable_keystroke_logging \/ cfg.enable_mouse_logging

\* run(): self.config.get('monitoring_active')
MonitoringActive(cfg) == cfg.monitoring_active

\* run(): monitoring_active false: return, the process ends with status 0
CheckActive ==
    /\ pc = "check_active"
    /\ IF MonitoringActive(config)
       THEN pc' = "start_listeners" /\ exit_code' = exit_code
       ELSE pc' = "exited" /\ exit_code' = 0
    /\ net' = "none"
    /\ UNCHANGED <<config, pairing_code, resp, log, keyboard_listener, mouse_listener, jobs>>
    /\ UNCHANGED mainFrame
    /\ UNCHANGED <<actVars, schVars>>

\* start_input_listeners; pynput may be missing
StartInputListeners ==
    /\ pc = "start_listeners"
    /\ \E pynput \in BOOLEAN :
         /\ keyboard_listener' = IF pynput /\ config.enable_keystroke_logging
                                 THEN "started" ELSE None
         /\ mouse_listener' = IF pynput /\ config.enable_mouse_logging
                              THEN "started" ELSE None
    /\ log' = log \cup {"listeners"}
    /\ pc' = "setup_schedules"
    /\ net' = "none"
    /\ UNCHANGED <<config, exit_code, pairing_code, resp, jobs>>
    /\ UNCHANGED mainFrame
    /\ UNCHANGED <<actVars, schVars>>

\* setup_schedules
JobNames == {"screenshot", "activity", "heartbeat", "settings"}
setup_schedules(cfg) ==
    (IF cfg.enable_screenshot_capture THEN {"screenshot"} ELSE {})
    \cup (IF cfg.enable_keystroke_logging \/ cfg.enable_mouse_logging
          THEN {"activity"} ELSE {})
    \cup {"heartbeat", "settings"}

\* schedule.every(interval).seconds.do(job) builds a timedelta from the
\* interval: a value that is not a number raises TypeError, which neither
\* setup_schedules nor run() catches.
ScheduleRaises(cfg) ==
    \/ "screenshot" \in setup_schedules(cfg) /\ ~IsNumber(cfg.screenshot_interval_seconds)
    \/ "activity" \in setup_schedules(cfg) /\ ~IsNumber(cfg.activity_log_interval_seconds)

SetupSchedules ==
    /\ pc = "setup_schedules"
    /\ IF ScheduleRaises(config)
       THEN /\ jobs' = jobs
            /\ log' = log \cup {"traceback"}
            /\ pc' = "exited"
            /\ exit_code' = 1
       ELSE /\ jobs' = jobs \cup setup_schedules(config)
            /\ log' = log \cup {"jobs"}
            /\ pc' = "start_thread"
            /\ exit_code' = exit_code
    /\ net' = "none"
    /\ UNCHANGED <<config, pairing_code, resp, keyboard_listener, mouse_listener>>
    /\ UNCHANGED mainFrame
    /\ UNCHANGED <<actVars, schVars>>

\* run(): the scheduler thread is started, the notification shown, the try
\* block of the main loop entered
StartScheduler ==
    /\ pc = "start_thread"
    /\ sched_pc' = "loop"
    /\ pc' = "main_loop"
    /\ finally_pending' = TRUE
    /\ net' = "none"
    /\ UNCHANGED <<config, config_file, exit_code, pairing_code, resp, keyboard_listener,
                   mouse_listener, jobs, pending, cur_job, temp_file, auth_rejected, log,
                   n_shutdown, signals_left, restarts_left, pairing_used, pairing_expired,
                   stop_event, paired_codes>>
    /\ UNCHANGED <<actVars, schVars>>

(***************************************************************************)
(* Signals and shutdown.  The handler runs on the main thread, on top of   *)
(* whatever it interrupts; shutdown() ends in sys.exit(0), whose           *)
(* SystemExit unwinds the interrupted frames and, when run()'s try block   *)
(* is among them, runs its finally clause: shutdown() again.               *)
(***************************************************************************)
Signal ==
    /\ Alive
    /\ signals_left > 0
    /\ signals_left' = signals_left - 1
    /\ pc' = "sd_begin"
    /\ resp' = NoResp
    /\ net' = "none"
    /\ UNCHANGED <<config, config_file, exit_code, pairing_code, stop_event,
                   finally_pending, keyboard_listener, mouse_listener, jobs, sched_pc,
                   pending, cur_job, temp_file, auth_rejected, log, n_shutdown,
                   restarts_left, pairing_used, pairing_expired, paired_codes>>
    /\ UNCHANGED <<actVars, schVars>>

sdFrame == <<config, config_file, exit_code, pairing_code, resp, jobs, pending, cur_job,
             temp_file, auth_rejected, log, signals_left, restarts_left, pairing_used,
             pairing_expired, paired_codes>>

\* shutdown(): stop_event.set()
ShutdownBegin ==
    /\ pc = "sd_begin"
    /\ stop_event' = TRUE
    /\ pc' = "sd_listeners"
    /\ net' = "none"
    /\ UNCHANGED <<finally_pending, keyboard_listener, mouse_listener, sched_pc, n_shutdown>>
    /\ UNCHANGED sdFrame
    /\ UNCHANGED <<actVars, schVars>>

\* shutdown(): stop_input_listeners()
ShutdownStopListeners ==
    /\ pc = "sd_listeners"
    /\ keyboard_listener' = None
    /\ mouse_listener' = None
    /\ pc' = "sd_join"
    /\ net' = "none"
    /\ UNCHANGED <<finally_pending, stop_event, sched_pc, n_shutdown>>
    /\ UNCHANGED sdFrame
    /\ UNCHANGED <<actVars, schVars>>

\* (a variant of join without the timeout)
JoinReturns_noTimeout(s) == s \in {"none", "done"}

\* shutdown(): thread.join(timeout=5) returns when the scheduler thread has
\* ended, or after 5 s when it is blocked in a request; then the completion
\* is logged.
JoinReturns(s) == s \in {"none", "done", "in_flight"}

ShutdownJoin ==
    /\ pc = "sd_join"
    /\ JoinReturns(sched_pc)
    /\ n_shutdown' = n_shutdown + 1
    /\ pc' = "sd_exit"
    /\ net' = "none"
    /\ UNCHANGED <<finally_pending, stop_event, keyboard_listener, mouse_listener, sched_pc>>
    /\ UNCHANGED sdFrame
    /\ UNCHANGED <<actVars, schVars>>

\* shutdown(): sys.exit(0)
ShutdownExit ==
    /\ pc = "sd_exit"
    /\ IF finally_pending
       THEN /\ finally_pending' = FALSE
            /\ pc' = "sd_begin"
            /\ UNCHANGED <<exit_code, sched_pc>>
       ELSE /\ pc' = "exited"
            /\ exit_code' = 0
            /\ sched_pc' = KillDaemon(sched_pc)
            /\ UNCHANGED finally_pending
    /\ net' = "none"
    /\ UNCHANGED <<config, config_file, pairing_code, resp, stop_event, keyboard_listener,
                   mouse_listener, jobs, pending, cur_job, temp_file, auth_rejected, log,
                   n_shutdown, signals_left, restarts_left, pairing_used, pairing_expired, paired_codes>>
    /\ UNCHANGED <<actVars, schVars>>

(***************************************************************************)
(* The scheduler thread: scheduler_thread, schedule.run_pending and the    *)
(* four jobs.  run_pending runs every due job, one after the other, on     *)
(* this one thread; stop_event is read only between two passes.            *)
(***************************************************************************)
Endpoint(j) ==
    CASE j = "screenshot" -> "upload-screenshot"
      [] j = "activity" -> "log-activity"
      [] j = "heartbeat" -> "update-status"
      [] OTHER -> "get-settings"

AfterJob(left) == IF left = {} THEN "loop" ELSE "next"

\* (a variant in which a failure escapes the job and ends the thread)
TickEnd_uncaught(failed, left) == IF failed THEN "done" ELSE AfterJob(left)

\* A job returns to run_pending: each job catches and logs its own failures
\* (except Exception), so the thread goes on whether the tick failed or not.
TickEnd(failed, left) == AfterJob(left)

\* while not self.stop_event.is_set(): schedule.run_pending(); time.sleep(1)
SchedLoop ==
    /\ Alive
    /\ sched_pc = "loop"
    /\ IF stop_event
       THEN sched_pc' = "done" /\ pending' = pending
       ELSE \E due \in SUBSET jobs \ {{}} :
              /\ Cardinality(due) <= MaxDue
              /\ pending' = due
              /\ sched_pc' = "next"
    /\ net' = "none"
    /\ UNCHANGED <<config, config_file, pc, exit_code, pairing_code, resp, stop_event,
                   finally_pending, keyboard_listener, mouse_listener, jobs, cur_job,
                   temp_file, auth_rejected, log, n_shutdown, signals_left, restarts_left,
                   pairing_used, pairing_expired, paired_codes>>
    /\ UNCHANGED <<actVars, schVars>>

\* The job's entry test: capture_screenshot and log_activity return at once
\* when their capability is disabled.
JobEnabled(j, cfg) ==
    CASE j = "screenshot" -> cfg.enable_screenshot_capture
      [] j = "activity" -> cfg.enable_keystroke_logging \/ cfg.enable_mouse_logging
      [] OTHER -> TRUE

\* run_pending starts the next due job: the job's body up to its upload.
\* A screenshot capture may raise before the temporary file is written.
JobStart ==
    /\ Alive
    /\ sched_pc = "next"
    /\ \E j \in pending, captured \in BOOLEAN :
         /\ (j # "screenshot" \/ ~JobEnabled(j, config)) => captured
         /\ pending' = pending \ {j}
         /\ IF JobEnabled(j, config) /\ captured
            THEN /\ sched_pc' = "upload"
                 /\ cur_job' = j
                 /\ temp_file' = (temp_file \/ j = "screenshot")
            ELSE /\ sched_pc' = TickEnd(JobEnabled(j, config), pending')
                 /\ cur_job' = None
                 /\ temp_file' = temp_file
    /\ net' = "none"
    /\ UNCHANGED <<config, config_file, pc, exit_code, pairing_code, resp, stop_event,
                   finally_pending, keyboard_listener, mouse_listener, jobs,
                   auth_rejected, log, n_shutdown, signals_left, restarts_left,
                   pairing_used, pairing_expired, paired_codes>>
    /\ UNCHANGED <<actVars, schVars>>

\* (a variant that removes the temporary file only after a successful upload)
Cleanup_onSuccess(file, j, ok) == file /\ (j # "screenshot" \/ ~ok)

\* capture_screenshot: os.remove(temp_path) follows upload_screenshot whatever
\* it returned; the other jobs have no temporary file.
Cleanup(file, j, ok) == file /\ j # "screenshot"

\* upload_screenshot / upload_activity / send_heartbeat /
\* fetch_settings_from_server: get_auth_headers, then the request is sent.
\* Without a token the call returns False at once (and the screenshot's
\* temporary file is removed); the mark "no_credential" records that return.
JobSend ==
    /\ Alive
    /\ sched_pc = "upload"
    /\ IF get_auth_headers(config) = None
       THEN /\ net' = "none"
            /\ sched_pc' = TickEnd(TRUE, pending)
            /\ cur_job' = None
            /\ temp_file' = Cleanup(temp_file, cur_job, FALSE)
            /\ log' = log \cup {"no_credential"}
       ELSE /\ net' = Endpoint(cur_job)
            /\ sched_pc' = "in_flight"
            /\ cur_job' = cur_job
            /\ temp_file' = temp_file
            /\ log' = log
    /\ UNCHANGED <<config, config_file, pc, exit_code, pairing_code, resp, stop_event,
                   finally_pending, keyboard_listener, mouse_listener, jobs, pending,
                   auth_rejected, n_shutdown, signals_left, restarts_left,
                   pairing_used, pairing_expired, paired_codes>>
    /\ UNCHANGED <<actVars, schVars>>

\* The request returns or raises; the job logs the outcome and ends.  The
\* settings job applies and saves a 200 response.
JobRecv ==
    /\ Alive
    /\ sched_pc = "in_flight"
    /\ \E status \in AuthStatuses, body \in SettingsBodies, io \in SaveOutcomes :
         /\ (status # 200 \/ cur_job # "settings") => (body = EmptyDict /\ io = "ok")
         /\ config' = IF cur_job = "settings" THEN FetchConfig(config, status, body)
                      ELSE config
         /\ config_file' = IF cur_job = "settings"
                           THEN FetchFile(config, config_file, status, body, io)
                           ELSE config_file
         /\ auth_rejected' = (auth_rejected \/ status \in {401, 403})
         /\ log' = IF cur_job = "settings" /\ status = 200 THEN log \cup SaveLog(io)
                   ELSE log
         /\ sched_pc' = TickEnd(status # 200, pending)
         /\ temp_file' = Cleanup(temp_file, cur_job, status = 200)
    /\ cur_job' = None
    /\ net' = "none"
    /\ UNCHANGED <<pc, exit_code, pairing_code, resp, stop_event, finally_pending,
                   keyboard_listener, mouse_listener, jobs, pending,
                   n_shutdown, signals_left, restarts_left, pairing_used,
                   pairing_expired, paired_codes>>
    /\ UNCHANGED <<actVars, schVars>>

\* The server's clock passes a pairing token's expires_at.
CodeExpires ==
    /\ \E c \in ServerCodes :
         /\ ~pairing_expired[c]
         /\ pairing_expired' = [pairing_expired EXCEPT ![c] = TRUE]
    /\ net' = "none"
    /\ UNCHANGED <<config, config_file, pc, exit_code, pairing_code, resp, stop_event,
                   finally_pending, keyboard_listener, mouse_listener, jobs, sched_pc,
                   pending, cur_job, temp_file, auth_rejected, log, n_shutdown,
                   signals_left, restarts_left, pairing_used, paired_codes>>
    /\ UNCHANGED <<actVars, schVars>>

(***************************************************************************)
(* The controller's specification.                                         *)
(***************************************************************************)
ActivityIdle ==
    /\ activity_lock = "free"
    /\ keystroke_count = 0
    /\ mouse_click_count = 0
    /\ apc = <<>>
    /\ tmp = <<>>
    /\ sample = <<>>
    /\ uploads = <<>>
    /\ taken = <<>>
    /\ last_activity_log = 0
    /\ events_left = 0

SchedIdle ==
    /\ now = 0
    /\ next_run = <<>>
    /\ running = "none"
    /\ remaining = 0
    /\ runs = <<>>

\* The machine before the agent is started: the config file is one of files,
\* sigs signals and starts process starts are still to come.
CtlBoot(files, sigs, starts) ==
    /\ config = default_config
    /\ config_file \in files
    /\ pc = "boot"
    /\ exit_code = NotExited
    /\ pairing_code = None
    /\ resp = NoResp
    /\ stop_event = FALSE
    /\ finally_pending = FALSE
    /\ keyboard_listener = None
    /\ mouse_listener = None
    /\ jobs = {}
    /\ sched_pc = "none"
    /\ pending = {}
    /\ cur_job = None
    /\ temp_file = FALSE
    /\ net = "none"
    /\ auth_rejected = FALSE
    /\ log = {}
    /\ n_shutdown = 0
    /\ signals_left = sigs
    /\ restarts_left = starts
    /\ pairing_used = [c \in ServerCodes |-> FALSE]
    /\ pairing_expired = [c \in ServerCodes |-> FALSE]
    /\ paired_codes = {}
    /\ ActivityIdle
    /\ SchedIdle

Init == CtlBoot(InitFiles, MaxSignals, MaxRestarts)

Next ==
    \/ Construct
    \/ InitialSetup
    \/ PairSend
    \/ PairRecv
    \/ SetupFailedExit
    \/ FetchInitial
    \/ CheckActive
    \/ StartInputListeners
    \/ SetupSchedules
    \/ StartScheduler
    \/ Signal
    \/ ShutdownBegin
    \/ ShutdownStopListeners
    \/ ShutdownJoin
    \/ ShutdownExit
    \/ SchedLoop
    \/ JobStart
    \/ JobSend
    \/ JobRecv
    \/ CodeExpires

Spec == Init /\ [][Next]_vars

(***************************************************************************)
(* SpecActivity: on_key_press and on_mouse_click on the listeners'         *)
(* threads, log_activity on the scheduler thread, one statement per step.  *)
(* The settings job runs on the scheduler thread too, so the toggles       *)
(* change only between two runs of log_activity.                           *)
(***************************************************************************)
MaxEvents == 3      \* input events delivered
MaxClock == 2       \* seconds the clock of SpecActivity advances

Threads == {"key", "mouse", "flush"}

PairedConfig == PairedFile.data

\* (a variant in which the lock excludes nobody)
LockFree_noExclusion(holder) == TRUE

\* with self.activity_lock: the lock is taken only when it is free
LockFree(holder) == holder = "free"

\* The counter a listener thread increments
CountOf(t) == IF t = "key" THEN keystroke_count ELSE mouse_click_count
EnabledFor(t, cfg) ==
    IF t = "key" THEN cfg.enable_keystroke_logging ELSE cfg.enable_mouse_logging

actFrame == <<config_file, pc, exit_code, pairing_code, resp, stop_event,
              finally_pending, keyboard_listener, mouse_listener, jobs, sched_pc,
              pending, cur_job, temp_file, auth_rejected, log, n_shutdown,
              signals_left, restarts_left, pairing_used, pairing_expired,
              paired_codes>>

\* The listener delivers an event: on_key_press / on_mouse_click is called.
\* A button release (pressed false) is no click and is dropped.
InputEvent(t) ==
    /\ apc[t] = "idle"
    /\ events_left > 0
    /\ events_left' = events_left - 1
    /\ \E pressed \in BOOLEAN :
         /\ (t = "key") => pressed
         /\ apc' = [apc EXCEPT ![t] = IF pressed THEN "called" ELSE "idle"]
    /\ net' = "none"
    /\ UNCHANGED <<config, activity_lock, keystroke_count, mouse_click_count, tmp, sample, uploads,
                   taken, last_activity_log, now>>
    /\ UNCHANGED actFrame
    /\ UNCHANGED <<next_run, running, remaining, runs>>

\* on_key_press / on_mouse_click: the handler tests the capability's toggle;
\* with the capability disabled it returns and the event is not counted.
InputTest(t) ==
    /\ apc[t] = "called"
    /\ apc' = [apc EXCEPT ![t] = IF EnabledFor(t, config) THEN "acquire" ELSE "idle"]
    /\ net' = "none"
    /\ UNCHANGED <<config, activity_lock, keystroke_count, mouse_click_count, tmp, sample, uploads,
                   taken, events_left, last_activity_log, now>>
    /\ UNCHANGED actFrame
    /\ UNCHANGED <<next_run, running, remaining, runs>>

\* with self.activity_lock:
InputAcquire(t) ==
    /\ apc[t] = "acquire"
    /\ LockFree(activity_lock)
    /\ activity_lock' = t
    /\ taken' = [taken EXCEPT ![t] = @ + 1]
    /\ apc' = [apc EXCEPT ![t] = "read"]
    /\ net' = "none"
    /\ UNCHANGED <<config, keystroke_count, mouse_click_count, tmp, sample, uploads, events_left,
                   last_activity_log, now>>
    /\ UNCHANGED actFrame
    /\ UNCHANGED <<next_run, running, remaining, runs>>

\* count += 1, the read
InputRead(t) ==
    /\ apc[t] = "read"
    /\ tmp' = [tmp EXCEPT ![t] = CountOf(t)]
    /\ apc' = [apc EXCEPT ![t] = "write"]
    /\ net' = "none"
    /\ UNCHANGED <<config, activity_lock, keystroke_count, mouse_click_count, sample, uploads, taken,
                   events_left, last_activity_log, now>>
    /\ UNCHANGED actFrame
    /\ UNCHANGED <<next_run, running, remaining, runs>>

\* count += 1, the write; the lock is released
InputWrite(t) ==
    /\ apc[t] = "write"
    /\ keystroke_count' = IF t = "key" THEN tmp[t] + 1 ELSE keystroke_count
    /\ mouse_click_count' = IF t = "mouse" THEN tmp[t] + 1 ELSE mouse_click_count
    /\ activity_lock' = IF activity_lock = t THEN "free" ELSE activity_lock
    /\ apc' = [apc EXCEPT ![t] = "idle"]
    /\ net' = "none"
    /\ UNCHANGED <<config, tmp, sample, uploads, taken, events_left, last_activity_log, now>>
    /\ UNCHANGED actFrame
    /\ UNCHANGED <<next_run, running, remaining, runs>>

\* The schedule is modelled when next_run holds the jobs' next run times
\* (SpecActivity leaves it out: there log_activity may be called at any time).
Scheduled == DOMAIN next_run # {}

\* (a variant in which run_pending calls the job on every pass)
FlushDue_always == TRUE

\* run_pending calls log_activity when the job is due: Job.should_run
FlushDue == Scheduled => now >= next_run["activity"]

\* schedule sets the job's next run when the job returns: now + interval
Reschedule(nr, cfg) ==
    IF Scheduled
    THEN [nr EXCEPT !["activity"] = now + cfg.activity_log_interval_seconds]
    ELSE nr

\* The calls of log_activity that have returned, counted where the schedule
\* is modelled and runs holds the count
Returned(r) == IF DOMAIN r = {} THEN r ELSE [r EXCEPT !["activity"] = @ + 1]

\* log_activity: the entry test (with both capabilities disabled the job
\* returns at once and nothing changes) and current_time = datetime.now()
FlushCheck ==
    /\ apc["flush"] = "idle"
    /\ FlushDue
    /\ config.enable_keystroke_logging \/ config.enable_mouse_logging
    /\ apc' = [apc EXCEPT !["flush"] = "acquire"]
    /\ tmp' = [tmp EXCEPT !["flush"] = now]
    /\ net' = "none"
    /\ UNCHANGED <<config, activity_lock, keystroke_count, mouse_click_count, sample, uploads, taken,
                   events_left, last_activity_log, now>>
    /\ UNCHANGED actFrame
    /\ UNCHANGED <<next_run, running, remaining, runs>>

\* log_activity: with self.activity_lock:
FlushAcquire ==
    /\ apc["flush"] = "acquire"
    /\ LockFree(activity_lock)
    /\ activity_lock' = "flush"
    /\ apc' = [apc EXCEPT !["flush"] = "build"]
    /\ net' = "none"
    /\ UNCHANGED <<config, keystroke_count, mouse_click_count, tmp, sample, uploads, taken,
                   events_left, last_activity_log, now>>
    /\ UNCHANGED actFrame
    /\ UNCHANGED <<next_run, running, remaining, runs>>

\* (a variant that reports the counters whatever the toggles say)
ActivityData_raw(cfg, start, end, keys, clicks) ==
    [timestamp_start |-> start, timestamp_end |-> end,
     keystrokes |-> keys, mouse_clicks |-> clicks]

\* The sample log_activity builds: a disabled capability is reported as 0.
ActivityData(cfg, start, end, keys, clicks) ==
    [timestamp_start |-> start, timestamp_end |-> end,
     keystrokes |-> IF cfg.enable_keystroke_logging THEN keys ELSE 0,
     mouse_clicks |-> IF cfg.enable_mouse_logging THEN clicks ELSE 0]

\* log_activity: activity_data = {...}
FlushBuild ==
    /\ apc["flush"] = "build"
    /\ sample' = ActivityData(config, last_activity_log, tmp["flush"],
                              keystroke_count, mouse_click_count)
    /\ uploads' = <<>>
    /\ apc' = [apc EXCEPT !["flush"] = "reset_keys"]
    /\ net' = "none"
    /\ UNCHANGED <<config, activity_lock, keystroke_count, mouse_click_count, tmp, taken,
                   events_left, last_activity_log, now>>
    /\ UNCHANGED actFrame
    /\ UNCHANGED <<next_run, running, remaining, runs>>

\* log_activity: self.keystroke_count = 0
FlushResetKeys ==
    /\ apc["flush"] = "reset_keys"
    /\ keystroke_count' = 0
    /\ apc' = [apc EXCEPT !["flush"] = "reset_clicks"]
    /\ net' = "none"
    /\ UNCHANGED <<config, activity_lock, mouse_click_count, tmp, sample, uploads, taken,
                   events_left, last_activity_log, now>>
    /\ UNCHANGED actFrame
    /\ UNCHANGED <<next_run, running, remaining, runs>>

\* (a variant in which the upload is made inside the with block)
LockAfterBlock_held(holder) == holder

\* log_activity: the with block ends before upload_activity is called, which
\* releases the lock the scheduler thread holds
LockAfterBlock(holder) == IF holder = "flush" THEN "free" ELSE holder

\* log_activity: self.mouse_click_count = 0; self.last_activity_log =
\* current_time; the lock is released.  The read-and-zero is over: taken
\* starts counting for the next sample.
FlushResetClicks ==
    /\ apc["flush"] = "reset_clicks"
    /\ mouse_click_count' = 0
    /\ last_activity_log' = tmp["flush"]
    /\ activity_lock' = LockAfterBlock(activity_lock)
    /\ taken' = [t \in {"key", "mouse"} |-> 0]
    /\ apc' = [apc EXCEPT !["flush"] = "upload"]
    /\ net' = "none"
    /\ UNCHANGED <<config, keystroke_count, tmp, sample, uploads, events_left, now>>
    /\ UNCHANGED actFrame
    /\ UNCHANGED <<next_run, running, remaining, runs>>

\* (a variant of upload_activity that tries a failed request a second time)
UploadAgain_retry(failed, sent) == failed /\ Len(sent) < 2

\* upload_activity makes one attempt: it never sends the sample again
UploadAgain(failed, sent) == FALSE

\* log_activity: self.upload_activity(activity_data): without a credential
\* nothing is sent; otherwise one request, whose outcome is logged.  The
\* sample is gone whatever the outcome; the job returns to run_pending.
FlushUpload ==
    /\ apc["flush"] = "upload"
    /\ \E status \in AuthStatuses :
         IF get_auth_headers(config) = None
         THEN /\ net' = "none"
              /\ uploads' = uploads
              /\ apc' = [apc EXCEPT !["flush"] = "idle"]
         ELSE /\ net' = "log-activity"
              /\ uploads' = Append(uploads, IF status = 200 THEN "ok" ELSE "failed")
              /\ apc' = [apc EXCEPT !["flush"] =
                            IF UploadAgain(status # 200, uploads') THEN "upload" ELSE "idle"]
    /\ next_run' = Reschedule(next_run, config)
    /\ runs' = Returned(runs)
    /\ UNCHANGED <<config, activity_lock, keystroke_count, mouse_click_count, tmp, sample,
                   taken, events_left, last_activity_log, now>>
    /\ UNCHANGED actFrame
    /\ UNCHANGED <<running, remaining>>

\* (a variant in which the settings job has a thread of its own)
RefreshMayRun_anyTime(p) == TRUE

\* fetch_settings_from_server is a job of the same scheduler thread as
\* log_activity, and run_pending runs one job after the other: it runs only
\* while log_activity is not executing.
RefreshMayRun(p) == p = "idle"

\* The settings job, between two runs of log_activity: a 200 response
\* replaces the toggles.
SettingsRefresh ==
    /\ RefreshMayRun(apc["flush"])
    /\ \E body \in SettingsBodies :
         /\ config' = ApplySettings(config, body)
         /\ config' # config
    /\ net' = "get-settings"
    /\ UNCHANGED <<activity_lock, keystroke_count, mouse_click_count, apc, tmp, sample, uploads,
                   taken, events_left, last_activity_log, now>>
    /\ UNCHANGED actFrame
    /\ UNCHANGED <<next_run, running, remaining, runs>>

\* The clock advances.  log_activity reads it once, on entry, so only the
\* time that passes between two runs is modelled.
ClockTick ==
    /\ apc["flush"] = "idle"
    /\ now < MaxClock
    /\ now' = now + 1
    /\ net' = "none"
    /\ UNCHANGED <<config, activity_lock, keystroke_count, mouse_click_count, apc, tmp,
                   sample, uploads, taken, events_left, last_activity_log>>
    /\ UNCHANGED actFrame
    /\ UNCHANGED <<next_run, running, remaining, runs>>

NoSample == [timestamp_start |-> 0, timestamp_end |-> 0, keystrokes |-> 0, mouse_clicks |-> 0]

\* The controller in its main loop, with the jobs js registered and sigs
\* signals still to come
CtlRunning(js, sigs) ==
    /\ config_file = PairedFile
    /\ pc = "main_loop"
    /\ exit_code = NotExited
    /\ pairing_code = None
    /\ resp = NoResp
    /\ stop_event = FALSE
    /\ finally_pending = TRUE
    /\ keyboard_listener = "started"
    /\ mouse_listener = "started"
    /\ jobs = js
    /\ sched_pc = "loop"
    /\ pending = {}
    /\ cur_job = None
    /\ temp_file = FALSE
    /\ net = "none"
    /\ auth_rejected = FALSE
    /\ log = {}
    /\ n_shutdown = 0
    /\ signals_left = sigs
    /\ restarts_left = 0
    /\ pairing_used = [c \in ServerCodes |-> TRUE]
    /\ pairing_expired = [c \in ServerCodes |-> FALSE]
    /\ paired_codes = ServerCodes

CtlIdle == CtlRunning(setup_schedules(PairedConfig), 0)

\* The agent is running with the configuration of a paired first run: both
\* listeners started, nothing counted yet.
InitActivity ==
    /\ config = PairedConfig
    /\ CtlIdle
    /\ activity_lock = "free"
    /\ keystroke_count = 0
    /\ mouse_click_count = 0
    /\ last_activity_log = 0
    /\ apc = [t \in Threads |-> "idle"]
    /\ tmp = [t \in Threads |-> 0]
    /\ sample = NoSample
    /\ uploads = <<>>
    /\ taken = [t \in {"key", "mouse"} |-> 0]
    /\ events_left = MaxEvents
    /\ now = 0
    /\ next_run = <<>>
    /\ running = "none"
    /\ remaining = 0
    /\ runs = <<>>

NextActivity ==
    \/ \E t \in {"key", "mouse"} : InputEvent(t)
    \/ \E t \in {"key", "mouse"} : InputTest(t)
    \/ \E t \in {"key", "mouse"} : InputAcquire(t)
    \/ \E t \in {"key", "mouse"} : InputRead(t)
    \/ \E t \in {"key", "mouse"} : InputWrite(t)
    \/ FlushCheck
    \/ FlushAcquire
    \/ FlushBuild
    \/ FlushResetKeys
    \/ FlushResetClicks
    \/ FlushUpload
    \/ SettingsRefresh
    \/ ClockTick

SpecActivity == InitActivity /\ [][NextActivity]_vars

(***************************************************************************)
(* SpecSched: scheduler_thread against a clock.  schedule.run_pending      *)
(* collects the jobs whose next_run has passed and runs them one after the *)
(* other on the scheduler thread; a job's next_run is set to "now +        *)
(* interval" when the job returns.  Then the thread sleeps one second.     *)
(***************************************************************************)
MaxTime == 65            \* seconds the clock of SpecSched advances
MaxDur == 3              \* seconds one run of a job may take
HeartbeatInterval == 300
SettingsInterval == 3600
SleepSeconds == 1

\* A settings response with the intervals of the two sampled jobs
SchedConfig == [PairedConfig EXCEPT !.screenshot_interval_seconds = 5,
                                    !.activity_log_interval_seconds = 7]

\* A configuration with screenshots disabled, keystroke logging enabled and
\* the default activity interval of 60 s
TickConfig == [PairedConfig EXCEPT !.enable_screenshot_capture = FALSE,
                                   !.enable_keystroke_logging = TRUE,
                                   !.activity_log_interval_seconds = 60]
SchedConfigs == {SchedConfig, TickConfig}

\* (a variant that registers the activity job with the screenshot interval)
Interval_wrongKey(j, cfg) ==
    CASE j \in {"screenshot", "activity"} -> cfg.screenshot_interval_seconds
      [] j = "heartbeat" -> HeartbeatInterval
      [] OTHER -> SettingsInterval

\* setup_schedules: the interval each job is registered with
Interval(j, cfg) ==
    CASE j = "screenshot" -> cfg.screenshot_interval_seconds
      [] j = "activity" -> cfg.activity_log_interval_seconds
      [] j = "heartbeat" -> HeartbeatInterval
      [] OTHER -> SettingsInterval

\* schedule's Job.should_run
should_run(j) == now >= next_run[j]

schedFrame == <<config, config_file, pc, exit_code, pairing_code, resp, stop_event,
                finally_pending, keyboard_listener, mouse_listener, jobs, cur_job,
                temp_file, net, auth_rejected, log, n_shutdown, signals_left,
                restarts_left, pairing_used, pairing_expired, paired_codes>>

\* run_pending: the due jobs are collected
SchedPass ==
    /\ sched_pc = "loop"
    /\ pending' = {j \in jobs : should_run(j)}
    /\ sched_pc' = IF pending' = {} THEN "sleep" ELSE "next"
    /\ UNCHANGED <<now, next_run, running, remaining, runs>>
    /\ UNCHANGED schedFrame
    /\ UNCHANGED actVars

\* run_pending: the next due job, in the order of next_run, starts; it will
\* take up to MaxDur seconds (a capture, an upload waiting for its timeout).
SchedRun ==
    /\ sched_pc = "next"
    /\ \E j \in pending, d \in 0..MaxDur :
         /\ \A k \in pending : next_run[j] <= next_run[k]
         /\ running' = j
         /\ remaining' = d
         /\ runs' = [runs EXCEPT ![j] = @ + 1]
         /\ pending' = pending \ {j}
    /\ sched_pc' = "in_flight"
    /\ UNCHANGED <<now, next_run>>
    /\ UNCHANGED schedFrame
    /\ UNCHANGED actVars

\* A second passes while the job runs
SchedWork ==
    /\ sched_pc = "in_flight"
    /\ remaining > 0
    /\ now < MaxTime
    /\ now' = now + 1
    /\ remaining' = remaining - 1
    /\ UNCHANGED <<next_run, running, runs, sched_pc, pending>>
    /\ UNCHANGED schedFrame
    /\ UNCHANGED actVars

\* The job returns (its errors are caught and logged inside it); schedule
\* sets its next_run.
SchedFinish ==
    /\ sched_pc = "in_flight"
    /\ remaining = 0
    /\ next_run' = [next_run EXCEPT ![running] = now + Interval(running, config)]
    /\ running' = "none"
    /\ sched_pc' = IF pending = {} THEN "sleep" ELSE "next"
    /\ UNCHANGED <<now, remaining, runs, pending>>
    /\ UNCHANGED schedFrame
    /\ UNCHANGED actVars

\* The pass is over: time.sleep(1)
SchedSleep ==
    /\ sched_pc = "sleep"
    /\ now < MaxTime
    /\ now' = now + SleepSeconds
    /\ sched_pc' = "loop"
    /\ UNCHANGED <<next_run, running, remaining, runs, pending>>
    /\ UNCHANGED schedFrame
    /\ UNCHANGED actVars

\* The agent is running; setup_schedules has just registered the jobs.
InitSched ==
    /\ config \in SchedConfigs
    /\ CtlRunning(setup_schedules(config), 0)
    /\ ActivityIdle
    /\ now = 0
    /\ next_run = [j \in JobNames |-> Interval(j, config)]
    /\ running = "none"
    /\ remaining = 0
    /\ runs = [j \in JobNames |-> 0]

NextSched ==
    \/ SchedPass
    \/ SchedRun
    \/ SchedWork
    \/ SchedFinish
    \/ SchedSleep

SpecSched == InitSched /\ [][NextSched]_vars

(***************************************************************************)
(* SpecShutdown: a running agent, its scheduler thread and its jobs, and   *)
(* the signals that end it.  The main thread's steps of shutdown() and the *)
(* scheduler thread's own steps are taken sooner or later (both threads    *)
(* are scheduled by the interpreter); nothing is assumed about when, or    *)
(* whether, a request in flight is answered, nor about signals.            *)
(***************************************************************************)
InitShutdown ==
    /\ config = PairedConfig
    /\ CtlRunning(setup_schedules(PairedConfig), MaxSignals)
    /\ ActivityIdle
    /\ SchedIdle

NextShutdown ==
    \/ Signal
    \/ ShutdownBegin
    \/ ShutdownStopListeners
    \/ ShutdownJoin
    \/ ShutdownExit
    \/ SchedLoop
    \/ JobStart
    \/ JobSend
    \/ JobRecv

SpecShutdown ==
    /\ InitShutdown
    /\ [][NextShutdown]_vars
    /\ WF_vars(ShutdownBegin)
    /\ WF_vars(ShutdownStopListeners)
    /\ WF_vars(ShutdownJoin)
    /\ WF_vars(ShutdownExit)
    /\ WF_vars(SchedLoop)
    /\ WF_vars(JobStart)
    /\ WF_vars(JobSend)

(***************************************************************************)
(* SpecClient: fetch_settings_from_server, upload_screenshot (through      *)
(* capture_screenshot), upload_activity (through log_activity) and         *)
(* send_heartbeat, called one after the other on an agent that __init__    *)
(* has constructed from any of the config files, with or without a         *)
(* credential in it.                                                       *)
(***************************************************************************)
\* The operations that are called: all four, capture_screenshot alone, or
\* fetch_settings_from_server alone
ClientCalls == {JobNames, {"screenshot"}, {"settings"}}

InitClient ==
    /\ config_file \in InitFiles
    /\ config = load_config(config_file)
    /\ pc = "run"
    /\ exit_code = NotExited
    /\ pairing_code = None
    /\ resp = NoResp
    /\ stop_event = FALSE
    /\ finally_pending = FALSE
    /\ keyboard_listener = None
    /\ mouse_listener = None
    /\ jobs \in ClientCalls
    /\ sched_pc = "loop"
    /\ pending = {}
    /\ cur_job = None
    /\ temp_file = FALSE
    /\ net = "none"
    /\ auth_rejected = FALSE
    /\ log = {}
    /\ n_shutdown = 0
    /\ signals_left = 0
    /\ restarts_left = 0
    /\ pairing_used = [c \in ServerCodes |-> FALSE]
    /\ pairing_expired = [c \in ServerCodes |-> FALSE]
    /\ paired_codes = {}
    /\ ActivityIdle
    /\ SchedIdle

NextClient ==
    \/ SchedLoop
    \/ JobStart
    \/ JobSend
    \/ JobRecv

SpecClient == InitClient /\ [][NextClient]_vars

(***************************************************************************)
(* SpecConfig: load_config and save_config on their own.  The config in    *)
(* memory is changed the way the agent changes it (a pairing, a settings   *)
(* response), saved, and loaded again as the next process would.           *)
(***************************************************************************)
cfgFrame == <<exit_code, pairing_code, resp, stop_event, finally_pending,
              keyboard_listener, mouse_listener, jobs, sched_pc, pending, cur_job,
              temp_file, net, auth_rejected, n_shutdown, signals_left, restarts_left,
              pairing_used, pairing_expired, paired_codes>>

\* pair_with_server on a 200 response, or fetch_settings_from_server on a 200
\* response: the update of self.config, before save_config is called
CfgMutate ==
    /\ pc = "loaded"
    /\ \/ config' = PairApply(config, Resp("pair", 200, PairBody(200)))
       \/ \E body \in SettingsBodies : config' = ApplySettings(config, body)
    /\ pc' = "dirty"
    /\ UNCHANGED <<config_file, log>>
    /\ UNCHANGED cfgFrame
    /\ UNCHANGED <<actVars, schVars>>

\* save_config
CfgSave ==
    /\ pc = "dirty"
    /\ \E io \in SaveOutcomes :
         /\ config_file' = save_config(config, config_file, io)
         /\ log' = SaveLog(io)
    /\ pc' = "saved"
    /\ UNCHANGED config
    /\ UNCHANGED cfgFrame
    /\ UNCHANGED <<actVars, schVars>>

\* load_config, at the next start
CfgLoad ==
    /\ pc = "saved"
    /\ config' = load_config(config_file)
    /\ pc' = "loaded"
    /\ UNCHANGED <<config_file, log>>
    /\ UNCHANGED cfgFrame
    /\ UNCHANGED <<actVars, schVars>>

InitConfig ==
    /\ config_file \in InitFiles
    /\ config = load_config(config_file)
    /\ pc = "loaded"
    /\ exit_code = NotExited
    /\ pairing_code = None
    /\ resp = NoResp
    /\ stop_event = FALSE
    /\ finally_pending = FALSE
    /\ keyboard_listener = None
    /\ mouse_listener = None
    /\ jobs = {}
    /\ sched_pc = "none"
    /\ pending = {}
    /\ cur_job = None
    /\ temp_file = FALSE
    /\ net = "none"
    /\ auth_rejected = FALSE
    /\ log = {}
    /\ n_shutdown = 0
    /\ signals_left = 0
    /\ restarts_left = 0
    /\ pairing_used = [c \in ServerCodes |-> FALSE]
    /\ pairing_expired = [c \in ServerCodes |-> FALSE]
    /\ paired_codes = {}
    /\ ActivityIdle
    /\ SchedIdle

NextConfig ==
    \/ CfgMutate
    \/ CfgSave
    \/ CfgLoad

SpecConfig == InitConfig /\ [][NextConfig]_vars

(***************************************************************************)
(* SpecStartup: one start of the process, from __init__ to the main loop   *)
(* of run(), on the config files of Spec and on a stored record whose      *)
(* screenshot interval is not a number.                                    *)
(***************************************************************************)
DamagedFile ==
    File("json", [PairedFile.data EXCEPT !.screenshot_interval_seconds = NotANumber])
StartupFiles == InitFiles \cup {DamagedFile}

InitStartup == CtlBoot(StartupFiles, 0, 1)

NextStartup ==
    \/ Construct
    \/ InitialSetup
    \/ PairSend
    \/ PairRecv
    \/ SetupFailedExit
    \/ FetchInitial
    \/ CheckActive
    \/ StartInputListeners
    \/ SetupSchedules
    \/ StartScheduler

SpecStartup == InitStartup /\ [][NextStartup]_vars

(***************************************************************************)
(* SpecWindow: the counters and log_activity as in SpecActivity, with the  *)
(* schedule: log_activity is called when its job is due and the job's next *)
(* run is set, interval seconds ahead, when it returns.  The clock, from   *)
(* which last_activity_log (in __init__) and current_time are read, moves  *)
(* whatever the threads are doing.  Time 0 is the construction of the      *)
(* agent; setup_schedules registers the job no earlier.                    *)
(***************************************************************************)
MaxWindowClock == 3     \* seconds the clock of SpecWindow advances
MaxWindowEvents == 2    \* input events delivered in SpecWindow
WindowIntervals == {1, 2}

WallClockTick ==
    /\ now < MaxWindowClock
    /\ now' = now + 1
    /\ net' = "none"
    /\ UNCHANGED <<config, activity_lock, keystroke_count, mouse_click_count, apc, tmp,
                   sample, uploads, taken, events_left, last_activity_log>>
    /\ UNCHANGED actFrame
    /\ UNCHANGED <<next_run, running, remaining, runs>>

InitWindow ==
    /\ \E i \in WindowIntervals :
         config = [PairedConfig EXCEPT !.activity_log_interval_seconds = i]
    /\ CtlIdle
    /\ activity_lock = "free"
    /\ keystroke_count = 0
    /\ mouse_click_count = 0
    /\ last_activity_log = 0
    /\ apc = [t \in Threads |-> "idle"]
    /\ tmp = [t \in Threads |-> 0]
    /\ sample = NoSample
    /\ uploads = <<>>
    /\ taken = [t \in {"key", "mouse"} |-> 0]
    /\ events_left = MaxWindowEvents
    /\ now = 0
    /\ next_run = [j \in {"activity"} |-> config.activity_log_interval_seconds]
    /\ running = "none"
    /\ remaining = 0
    /\ runs = <<>>

NextWindow ==
    \/ \E t \in {"key", "mouse"} : InputEvent(t)
    \/ \E t \in {"key", "mouse"} : InputTest(t)
    \/ \E t \in {"key", "mouse"} : InputAcquire(t)
    \/ \E t \in {"key", "mouse"} : InputRead(t)
    \/ \E t \in {"key", "mouse"} : InputWrite(t)
    \/ FlushCheck
    \/ FlushAcquire
    \/ FlushBuild
    \/ FlushResetKeys
    \/ FlushResetClicks
    \/ FlushUpload
    \/ WallClockTick

SpecWindow == InitWindow /\ [][NextWindow]_vars

(***************************************************************************)
(* SpecSkip: SpecWindow with the settings job switching the input          *)
(* capabilities off and on between two runs of log_activity.  A run that   *)
(* finds both capabilities disabled returns at its entry test; the         *)
(* schedule sets the job's next run all the same.  The job keeps the       *)
(* interval it was registered with, so the server's settings carry that    *)
(* interval.                                                               *)
(***************************************************************************)
MaxSkipEvents == 1      \* input events delivered in SpecSkip

\* (a variant in which a skipped run moves the start of the next window)
WindowStartAfterSkip_advance(last, t) == t

\* log_activity returns at the entry test before last_activity_log is touched
WindowStartAfterSkip(last, t) == last

\* log_activity with both input capabilities disabled: return
FlushSkip ==
    /\ apc["flush"] = "idle"
    /\ Scheduled
    /\ FlushDue
    /\ ~(config.enable_keystroke_logging \/ config.enable_mouse_logging)
    /\ last_activity_log' = WindowStartAfterSkip(last_activity_log, now)
    /\ next_run' = Reschedule(next_run, config)
    /\ runs' = Returned(runs)
    /\ net' = "none"
    /\ UNCHANGED <<config, activity_lock, keystroke_count, mouse_click_count, apc, tmp,
                   sample, uploads, taken, events_left, now>>
    /\ UNCHANGED actFrame
    /\ UNCHANGED <<running, remaining>>

\* What get_settings answers while the administrator changes only the two
\* input toggles
ToggleBodies(cfg) ==
    { [enable_screenshot_capture |-> cfg.enable_screenshot_capture,
       enable_keystroke_logging |-> k, enable_mouse_logging |-> m,
       screenshot_interval_seconds |-> cfg.screenshot_interval_seconds,
       activity_log_interval_seconds |-> cfg.activity_log_interval_seconds,
       user_pk |-> ServerUserPk] : k, m \in BOOLEAN }

\* The settings job, between two runs of log_activity
ToggleRefresh ==
    /\ RefreshMayRun(apc["flush"])
    /\ \E body \in ToggleBodies(config) :
         /\ config' = ApplySettings(config, body)
         /\ config' # config
    /\ net' = "get-settings"
    /\ UNCHANGED <<activity_lock, keystroke_count, mouse_click_count, apc, tmp, sample, uploads,
                   taken, events_left, last_activity_log, now>>
    /\ UNCHANGED actFrame
    /\ UNCHANGED <<next_run, running, remaining, runs>>

InitSkip ==
    /\ \E i \in WindowIntervals :
         config = [PairedConfig EXCEPT !.activity_log_interval_seconds = i,
                                       !.user_pk = ServerUserPk]
    /\ CtlIdle
    /\ activity_lock = "free"
    /\ keystroke_count = 0
    /\ mouse_click_count = 0
    /\ last_activity_log = 0
    /\ apc = [t \in Threads |-> "idle"]
    /\ tmp = [t \in Threads |-> 0]
    /\ sample = NoSample
    /\ uploads = <<>>
    /\ taken = [t \in {"key", "mouse"} |-> 0]
    /\ events_left = MaxSkipEvents
    /\ now = 0
    /\ next_run = [j \in {"activity"} |-> config.activity_log_interval_seconds]
    /\ running = "none"
    /\ remaining = 0
    /\ runs = [j \in {"activity"} |-> 0]

NextSkip ==
    \/ \E t \in {"key", "mouse"} : InputEvent(t)
    \/ \E t \in {"key", "mouse"} : InputTest(t)
    \/ \E t \in {"key", "mouse"} : InputAcquire(t)
    \/ \E t \in {"key", "mouse"} : InputRead(t)
    \/ \E t \in {"key", "mouse"} : InputWrite(t)
    \/ FlushCheck
    \/ FlushSkip
    \/ FlushAcquire
    \/ FlushBuild
    \/ FlushResetKeys
    \/ FlushResetClicks
    \/ FlushUpload
    \/ ToggleRefresh
    \/ WallClockTick

SpecSkip == InitSkip /\ [][NextSkip]_vars

(***************************************************************************)
(* SpecCredential: the process from construction to its scheduled jobs,    *)
(* started also on the file of an agent that was monitoring and whose      *)
(* credential has been removed from the file since.                        *)
(***************************************************************************)
UnpairedActiveFile ==
    File("json", [PairedFile.data EXCEPT !.agent_token = None, !.monitoring_active = TRUE])
CredentialFiles == StartupFiles \cup {UnpairedActiveFile}

InitCredential == CtlBoot(CredentialFiles, 0, 1)

NextCredential ==
    \/ NextStartup
    \/ SchedLoop
    \/ JobStart
    \/ JobSend
    \/ JobRecv

SpecCredential == InitCredential /\ [][NextCredential]_vars

(***************************************************************************)
(* SpecPair: views.pair_agent served to two requests at once, each by a    *)
(* worker of its own, one statement per step.  The view opens no           *)
(* transaction and takes no row lock: token_obj is a copy of the row as it *)
(* was when objects.get read it.  apc holds each request's position and    *)
(* the status it was answered with, tmp its token_obj.                     *)
(***************************************************************************)
Requests == {"r1", "r2"}
NoTokenObj == [token |-> None, used |-> FALSE]

pairFrame == <<config, config_file, pc, exit_code, pairing_code, resp, stop_event,
               finally_pending, keyboard_listener, mouse_listener, jobs, sched_pc,
               pending, cur_job, temp_file, auth_rejected, log, n_shutdown,
               signals_left, restarts_left, activity_lock, keystroke_count,
               mouse_click_count, sample, uploads, taken, last_activity_log,
               events_left, schVars>>

\* token_obj = PairingToken.objects.get(token=pairing_token); an unknown
\* code raises DoesNotExist and is answered 400
PairGet(r) ==
    /\ apc[r] = "idle"
    /\ \E code \in Codes :
         IF code \in ServerCodes
         THEN /\ tmp' = [tmp EXCEPT ![r] = [token |-> code, used |-> pairing_used[code]]]
              /\ apc' = [apc EXCEPT ![r] = "is_valid"]
         ELSE /\ tmp' = tmp
              /\ apc' = [apc EXCEPT ![r] = "400"]
    /\ net' = "pair"
    /\ UNCHANGED <<pairing_used, pairing_expired, paired_codes>>
    /\ UNCHANGED pairFrame

\* if not token_obj.is_valid(): 400.  used is the copy's, the expiry is
\* compared with the clock now.
PairIsValid(r) ==
    /\ apc[r] = "is_valid"
    /\ apc' = [apc EXCEPT ![r] =
                  IF is_valid(tmp[r].used, pairing_expired[tmp[r].token])
                  THEN "mark_used" ELSE "400"]
    /\ net' = "none"
    /\ UNCHANGED <<tmp, pairing_used, pairing_expired, paired_codes>>
    /\ UNCHANGED pairFrame

\* token_obj.used = True; token_obj.save()
PairMarkUsed(r) ==
    /\ apc[r] = "mark_used"
    /\ tmp' = [tmp EXCEPT ![r].used = TRUE]
    /\ pairing_used' = [pairing_used EXCEPT ![tmp[r].token] = TRUE]
    /\ apc' = [apc EXCEPT ![r] = "create"]
    /\ net' = "none"
    /\ UNCHANGED <<pairing_expired, paired_codes>>
    /\ UNCHANGED pairFrame

\* AgentToken and AgentStatus get_or_create, then the 200 response with the
\* credential; an exception on the way is answered 500
PairRespond(r) ==
    /\ apc[r] = "create"
    /\ \E fault \in BOOLEAN :
         /\ apc' = [apc EXCEPT ![r] = IF fault THEN "500" ELSE "200"]
         /\ paired_codes' = IF fault THEN paired_codes
                            ELSE paired_codes \cup {tmp[r].token}
    /\ net' = "none"
    /\ UNCHANGED <<tmp, pairing_used, pairing_expired>>
    /\ UNCHANGED pairFrame

\* The code's hour runs out
PairCodeExpires ==
    /\ \E c \in ServerCodes :
         /\ ~pairing_expired[c]
         /\ pairing_expired' = [pairing_expired EXCEPT ![c] = TRUE]
    /\ net' = "none"
    /\ UNCHANGED <<apc, tmp, pairing_used, paired_codes>>
    /\ UNCHANGED pairFrame

InitPair ==
    /\ config = default_config
    /\ config_file = AbsentFile
    /\ pc = "boot"
    /\ exit_code = NotExited
    /\ pairing_code = None
    /\ resp = NoResp
    /\ stop_event = FALSE
    /\ finally_pending = FALSE
    /\ keyboard_listener = None
    /\ mouse_listener = None
    /\ jobs = {}
    /\ sched_pc = "none"
    /\ pending = {}
    /\ cur_job = None
    /\ temp_file = FALSE
    /\ net = "none"
    /\ auth_rejected = FALSE
    /\ log = {}
    /\ n_shutdown = 0
    /\ signals_left = 0
    /\ restarts_left = 0
    /\ pairing_used = [c \in ServerCodes |-> FALSE]
    /\ pairing_expired = [c \in ServerCodes |-> FALSE]
    /\ paired_codes = {}
    /\ activity_lock = "free"
    /\ keystroke_count = 0
    /\ mouse_click_count = 0
    /\ last_activity_log = 0
    /\ apc = [r \in Requests |-> "idle"]
    /\ tmp = [r \in Requests |-> NoTokenObj]
    /\ sample = NoSample
    /\ uploads = <<>>
    /\ taken = [t \in {"key", "mouse"} |-> 0]
    /\ events_left = 0
    /\ now = 0
    /\ next_run = <<>>
    /\ running = "none"
    /\ remaining = 0
    /\ runs = <<>>

NextPair ==
    \/ \E r \in Requests : PairGet(r)
    \/ \E r \in Requests : PairIsValid(r)
    \/ \E r \in Requests : PairMarkUsed(r)
    \/ \E r \in Requests : PairRespond(r)
    \/ PairCodeExpires

SpecPair == InitPair /\ [][NextPair]_vars

(***************************************************************************)
(* SpecService: AgentService.run_as_service.  The main thread launches the *)
(* monitor thread and then calls start_agent itself; monitor_agent starts  *)
(* start_agent on a new thread whenever it finds running False.  apc holds *)
(* the positions of the main and the monitor thread, tmp those of the      *)
(* threads the monitor started, running is self.running and restarts_left  *)
(* is max_restarts - restart_count.  All threads but the main one are      *)
(* daemons: they end with the main thread.                                 *)
(***************************************************************************)
MaxServiceRestarts == 2     \* max_restarts (5 in agent_service.py)

MainThread == 0
AgentThreads == 1 .. MaxServiceRestarts
Executors == {MainThread} \cup AgentThreads

serviceFrame == <<config, config_file, pc, exit_code, pairing_code, resp, stop_event,
                  finally_pending, keyboard_listener, mouse_listener, jobs, sched_pc,
                  pending, cur_job, temp_file, auth_rejected, log, n_shutdown,
                  signals_left, pairing_used, pairing_expired, paired_codes,
                  activity_lock, keystroke_count, mouse_click_count, sample, uploads,
                  taken, last_activity_log, events_left, now, next_run, remaining, runs>>

\* Where the thread x is in start_agent
Pos(x) == IF x = MainThread THEN apc["main"] ELSE tmp[x]

Moves(x, p) ==
    /\ apc' = IF x = MainThread THEN [apc EXCEPT !["main"] = p] ELSE apc
    /\ tmp' = IF x = MainThread THEN tmp ELSE [tmp EXCEPT ![x] = p]

\* The process lives as long as its main thread
ProcessAlive == apc["main"] # "ended"

\* run_as_service: monitor_thread.start(), then self.start_agent()
LaunchMonitor ==
    /\ apc["main"] = "launch"
    /\ apc' = [apc EXCEPT !["main"] = "start", !["monitor"] = "test"]
    /\ net' = "none"
    /\ UNCHANGED <<tmp, running, restarts_left>>
    /\ UNCHANGED serviceFrame

\* start_agent: DesktopAgent() is entered: directories, logging, load_config
ConstructBegins(x) ==
    /\ ProcessAlive
    /\ Pos(x) = "start"
    /\ Moves(x, "init")
    /\ net' = "none"
    /\ UNCHANGED <<running, restarts_left>>
    /\ UNCHANGED serviceFrame

\* DesktopAgent.__init__: signal.signal(...) raises ValueError on any thread
\* but the main one; the rest of the constructor may fail on any thread.
ConstructRaises(x, fault) == x # MainThread \/ fault

\* start_agent: self.agent = DesktopAgent() returns or raises
ConstructEnds(x) ==
    /\ ProcessAlive
    /\ Pos(x) = "init"
    /\ \E fault \in BOOLEAN :
         Moves(x, IF ConstructRaises(x, fault) THEN "except" ELSE "mark")
    /\ net' = "none"
    /\ UNCHANGED <<running, restarts_left>>
    /\ UNCHANGED serviceFrame

\* start_agent: self.running = True
MarkRunning(x) ==
    /\ ProcessAlive
    /\ Pos(x) = "mark"
    /\ running' = TRUE
    /\ Moves(x, "run")
    /\ net' = "none"
    /\ UNCHANGED restarts_left
    /\ UNCHANGED serviceFrame

\* start_agent: self.agent.run() raises an Exception, or it returns or
\* leaves through sys.exit (SystemExit is no Exception) and start_agent is over
AgentRunEnds(x) ==
    /\ ProcessAlive
    /\ Pos(x) = "run"
    /\ \E raised \in BOOLEAN : Moves(x, IF raised THEN "except" ELSE "ended")
    /\ net' = "none"
    /\ UNCHANGED <<running, restarts_left>>
    /\ UNCHANGED serviceFrame

\* start_agent: except Exception: self.running = False
AgentExcept(x) ==
    /\ ProcessAlive
    /\ Pos(x) = "except"
    /\ running' = FALSE
    /\ Moves(x, "ended")
    /\ net' = "none"
    /\ UNCHANGED restarts_left
    /\ UNCHANGED serviceFrame

\* monitor_agent, one pass of the loop: with running False and restarts left
\* it counts a restart and starts start_agent on a new thread; with no
\* restarts left it stops; then it sleeps
MonitorTest ==
    /\ ProcessAlive
    /\ apc["monitor"] = "test"
    /\ IF ~running /\ restarts_left > 0
       THEN /\ restarts_left' = restarts_left - 1
            /\ tmp' = [tmp EXCEPT ![MaxServiceRestarts - restarts_left + 1] = "start"]
            /\ apc' = [apc EXCEPT !["monitor"] = "sleep"]
       ELSE /\ restarts_left' = restarts_left
            /\ tmp' = tmp
            /\ apc' = [apc EXCEPT !["monitor"] =
                          IF restarts_left = 0 THEN "stopped" ELSE "sleep"]
    /\ net' = "none"
    /\ UNCHANGED running
    /\ UNCHANGED serviceFrame

\* monitor_agent: time.sleep(30) or time.sleep(10) is over
MonitorWakes ==
    /\ ProcessAlive
    /\ apc["monitor"] = "sleep"
    /\ apc' = [apc EXCEPT !["monitor"] = "test"]
    /\ net' = "none"
    /\ UNCHANGED <<tmp, running, restarts_left>>
    /\ UNCHANGED serviceFrame

InitService ==
    /\ config = default_config
    /\ config_file = AbsentFile
    /\ pc = "boot"
    /\ exit_code = NotExited
    /\ pairing_code = None
    /\ resp = NoResp
    /\ stop_event = FALSE
    /\ finally_pending = FALSE
    /\ keyboard_listener = None
    /\ mouse_listener = None
    /\ jobs = {}
    /\ sched_pc = "none"
    /\ pending = {}
    /\ cur_job = None
    /\ temp_file = FALSE
    /\ net = "none"
    /\ auth_rejected = FALSE
    /\ log = {}
    /\ n_shutdown = 0
    /\ signals_left = 0
    /\ restarts_left = MaxServiceRestarts
    /\ pairing_used = [c \in ServerCodes |-> FALSE]
    /\ pairing_expired = [c \in ServerCodes |-> FALSE]
    /\ paired_codes = {}
    /\ activity_lock = "free"
    /\ keystroke_count = 0
    /\ mouse_click_count = 0
    /\ last_activity_log = 0
    /\ apc = [t \in {"main", "monitor"} |-> IF t = "main" THEN "launch" ELSE "off"]
    /\ tmp = [i \in AgentThreads |-> "off"]
    /\ sample = NoSample
    /\ uploads = <<>>
    /\ taken = [t \in {"key", "mouse"} |-> 0]
    /\ events_left = 0
    /\ now = 0
    /\ next_run = <<>>
    /\ running = FALSE
    /\ remaining = 0
    /\ runs = <<>>

NextService ==
    \/ LaunchMonitor
    \/ \E x \in Executors : ConstructBegins(x)
    \/ \E x \in Executors : ConstructEnds(x)
    \/ \E x \in Executors : MarkRunning(x)
    \/ \E x \in Executors : AgentRunEnds(x)
    \/ \E x \in Executors : AgentExcept(x)
    \/ MonitorTest
    \/ MonitorWakes

SpecService == InitService /\ [][NextService]_vars

(***************************************************************************)
(* The claims.                                                             *)
(***************************************************************************)
InFlushSection == apc["flush"] \in {"reset_keys", "reset_clicks"}

\* C1, as stated: every flushed sample's counts equal the number of increments
\* that took the lock since the previous flush's read-and-zero.
C1_SampleEqualsTaken ==
    InFlushSection =>
        /\ sample.keystrokes = taken["key"]
        /\ sample.mouse_clicks = taken["mouse"]

\* C1, amended: for a capability enabled at flush time the sample's count equals
\* the number of increments that took the lock since the previous flush's
\* read-and-zero, for a disabled one it is 0 (the increments are discarded);
\* and whenever the lock is free each counter equals the increments taken
\* since that flush: none is lost, none is counted twice.
C1_SampleEqualsTakenWhenEnabled ==
    /\ InFlushSection =>
         /\ sample.keystrokes =
              (IF config.enable_keystroke_logging THEN taken["key"] ELSE 0)
         /\ sample.mouse_clicks =
              (IF config.enable_mouse_logging THEN taken["mouse"] ELSE 0)
    /\ activity_lock = "free" =>
         /\ keystroke_count = taken["key"]
         /\ mouse_click_count = taken["mouse"]

\* C1 witness: a flush has read two keystrokes while a click waits for the lock.
C1_FlushWithWaitingIncrement ==
    /\ apc["flush"] = "reset_keys"
    /\ sample.keystrokes = 2
    /\ apc["mouse"] = "acquire"

\* C2: at most one full shutdown sequence runs in a process, however often
\* shutdown is triggered.
C2_OneShutdownSequence == n_shutdown <= 1

\* C3: while one job executes, no other job is overdue by more than the
\* scheduler's one-second polling step.
C3_TicksOnTime ==
    running # "none" =>
        \A j \in jobs \ {running} : now - next_run[j] <= SleepSeconds

AuthEndpoints == {"get-settings", "upload-screenshot", "log-activity", "update-status"}

\* C4: once an authenticated call has received 401/403, no later step sends a
\* request to an authenticated endpoint.
C4_ShortCircuitAfterAuthError ==
    [][auth_rejected => net' \notin AuthEndpoints]_vars

IsPaired(cfg) ==
    cfg.agent_token # None /\ cfg.user_pk # None /\ cfg.first_run_complete

PairServed == pc = "pairing" /\ pc' = "pair_recv"

\* C5: the server answers 200 to a Pair request only for a code that is unused
\* and unexpired, and marks it used; a request replaying a code that has
\* already paired is refused and pairs nobody; and the agent that processes the
\* 200 response goes from unpaired to paired in that step.
C5_PairOnceReplayRefused ==
    [][ /\ (PairServed /\ resp'.status = 200) =>
              /\ pairing_code \notin paired_codes
              /\ ~pairing_used[pairing_code] /\ ~pairing_expired[pairing_code]
              /\ pairing_used'[pairing_code]
        /\ (PairServed /\ pairing_code \in paired_codes) =>
              /\ resp'.status # 200
              /\ paired_codes' = paired_codes
        /\ (\A c \in ServerCodes : pairing_used[c] => pairing_used'[c])
        /\ (pc = "pair_recv" /\ PairOk(resp) /\ pc' = "fetch_initial") =>
              /\ ~IsPaired(config)
              /\ IsPaired(config')
      ]_vars

\* C5 witness: the answer to a replay of a code that paired before and has not
\* expired is a refusal.
C5_ReplayRefused ==
    /\ pc = "pair_recv"
    /\ pairing_code \in paired_codes
    /\ ~pairing_expired[pairing_code]
    /\ resp.status = 400
    /\ ~IsPaired(config)

\* C6: agent_token and user_pk are both null or both set.
C6_TokenAndPkTogether ==
    (config.agent_token = None) <=> (config.user_pk = None)

NothingStarted ==
    /\ log \cap {"fetch", "listeners", "jobs"} = {}
    /\ jobs = {}
    /\ sched_pc = "none"
    /\ keyboard_listener = None
    /\ mouse_listener = None

\* C7, as stated: after a failed pairing flow the process exits with a non-zero
\* status, having fetched no settings, started no listener and registered no job.
C7_FailedPairingExitsNonZero ==
    "setup_failed" \in log =>
        /\ NothingStarted
        /\ pc = "exited" => exit_code # 0

\* C7, amended: after a failed pairing flow nothing is fetched, started or
\* registered, and the process exits with status 1, unless a termination signal
\* is handled first: then shutdown() runs and the status is 0.
C7_FailedPairingExits ==
    "setup_failed" \in log =>
        /\ NothingStarted
        /\ pc \in {"setup_failed", "exited", "sd_begin", "sd_listeners", "sd_join", "sd_exit"}
        /\ pc = "exited" => (exit_code = 1 \/ (exit_code = 0 /\ n_shutdown >= 1))
        /\ (pc = "exited" /\ n_shutdown = 0) => exit_code = 1

\* C7 witness: the Pair call failed and the process has exited with status 1.
C7_ExitedAfterFailedPair ==
    /\ pc = "exited"
    /\ exit_code = 1
    /\ {"setup_failed", "pair_request"} \subseteq log

PairReturnedTrue == pc = "fetch_initial" /\ "pair_request" \in log

StoredPaired ==
    /\ config_file.kind = "json"
    /\ {"agent_token", "user_pk", "first_run_complete"} \subseteq DOMAIN config_file.data
    /\ config_file.data.agent_token = ServerAgentToken
    /\ config_file.data.user_pk = ServerUserPk
    /\ config_file.data.first_run_complete

\* C8, as stated: once pair_with_server has returned True the stored record
\* holds the credential, the account identifier and the pairing-complete flag.
C8_StoredAfterPairing == PairReturnedTrue => StoredPaired

\* C8, amended: once pair_with_server has returned True the in-memory config
\* holds the credential and the account identifier of the response and the
\* pairing-complete flag, and the stored record equals it unless save_config's
\* write failed (which is logged, not raised).
C8_PairedInMemoryStoredIfWritten ==
    PairReturnedTrue =>
        /\ config.agent_token = ServerAgentToken
        /\ config.user_pk = ServerUserPk
        /\ config.first_run_complete
        /\ "save_error" \notin log => (config_file = File("json", config) /\ StoredPaired)

\* C8 witness: pairing has succeeded and the record was written.
C8_PairedAndStored ==
    /\ PairReturnedTrue
    /\ "save_error" \notin log
    /\ StoredPaired

\* C9: initial_setup on a config with the pairing-complete flag and a
\* credential changes nothing, prompts for nothing, sends nothing and reports
\* success (run() goes on to the settings fetch).
C9_PairedSetupIsNoOp ==
    [][ (pc = "run" /\ config.first_run_complete /\ config.agent_token # None
         /\ pc' \notin {"run", "sd_begin"}) =>
            /\ pc' = "fetch_initial"
            /\ config' = config
            /\ config_file' = config_file
            /\ log' = log
            /\ net' = "none"
            /\ pairing_used' = pairing_used
      ]_vars

\* C9 witness: initial_setup has returned True for a paired config without a
\* prompt.
C9_SetupSkipped ==
    /\ pc = "fetch_initial"
    /\ log = {}
    /\ config.first_run_complete
    /\ config.agent_token # None

PromptedNotYetSent == "prompt" \in log /\ "pair_request" \notin log

\* C10, as stated: the pairing prompt is shown only to a config without a
\* credential.
C10_PromptOnlyWithoutCredential ==
    PromptedNotYetSent => config.agent_token = None

\* C10, amended: the pairing prompt is shown only to a config that lacks the
\* credential or the pairing-complete flag.
C10_PromptOnlyWhenUnpaired ==
    PromptedNotYetSent => (config.agent_token = None \/ ~config.first_run_complete)

\* C10 witness: the prompt was shown to a config that holds a credential but
\* not the pairing-complete flag.
C10_PromptedWithCredential ==
    /\ pc = "pairing"
    /\ config.agent_token # None
    /\ ~config.first_run_complete

\* C11: when the initial settings fetch fails, run() logs a warning and goes on
\* to the monitoring_active test with the configuration it had: the config,
\* the stored record and the exit status are untouched by the failure.
C11_FailedFetchContinues ==
    [][ (pc = "fetch_initial" /\ "fetch_warning" \in log') =>
            /\ pc' = "check_active"
            /\ config' = config
            /\ config_file' = config_file
            /\ exit_code' = NotExited
            /\ "fetch" \in log'
      ]_vars

\* C11 witness: the initial fetch failed and the controller is in its main
\* loop, running on the stored configuration.
C11_RunningAfterFailedFetch ==
    /\ pc = "main_loop"
    /\ "fetch_warning" \in log
    /\ config = load_config(config_file)

NoCaptureStarted ==
    /\ log \cap {"listeners", "jobs"} = {}
    /\ jobs = {}
    /\ sched_pc = "none"
    /\ keyboard_listener = None
    /\ mouse_listener = None

StartsSomething ==
    \/ keyboard_listener' = "started" /\ keyboard_listener # "started"
    \/ mouse_listener' = "started" /\ mouse_listener # "started"
    \/ jobs' # jobs /\ jobs' # {}
    \/ sched_pc = "none" /\ sched_pc' # "none"
    \/ "listeners" \in log' \ log

\* C12: a listener is started, a job registered or the scheduler thread
\* created only by a process whose config has monitoring_active set after the
\* initial settings fetch; with the flag false run() returns (status 0) with
\* no listener, no job and no scheduler thread.
C12_RunningOnlyIfActive ==
    [][ /\ StartsSomething => (config.monitoring_active /\ "fetch" \in log)
        /\ (pc = "check_active" /\ pc' \notin {"check_active", "sd_begin"}) =>
              IF config.monitoring_active
              THEN pc' = "start_listeners" /\ exit_code' = NotExited
              ELSE pc' = "exited" /\ exit_code' = 0 /\ NoCaptureStarted'
      ]_vars

\* C12 witness: run() has returned because monitoring was not active; nothing
\* was started.
C12_QuietExit ==
    /\ pc = "exited"
    /\ exit_code = 0
    /\ n_shutdown = 0
    /\ "fetch" \in log
    /\ ~config.monitoring_active
    /\ NoCaptureStarted

\* Calls of a job's function that got past the function's own entry test
Flushes == IF JobEnabled("activity", config) THEN runs["activity"] ELSE 0
Captures == IF JobEnabled("screenshot", config) THEN runs["screenshot"] ELSE 0

\* C13: with screenshots disabled, keystroke logging enabled and an activity
\* interval of 60 s, no activity flush happens before 60 s, and from the first
\* tick of the activity interval until the second is due exactly one activity
\* flush and no screenshot capture has happened.
C13_OneFlushNoCapture ==
    config = TickConfig =>
        /\ "screenshot" \notin jobs
        /\ Captures = 0
        /\ now < 60 => Flushes = 0
        /\ (now > 60 /\ now < 120) => Flushes = 1

\* C13 witness: the first tick of the 60 s activity interval has passed.
C13_AfterFirstTick ==
    /\ config = TickConfig
    /\ now > 60
    /\ running = "none"
    /\ Flushes = 1
    /\ Captures = 0

SampledJobs == {"screenshot", "activity"}

\* C14: after T seconds a job registered with interval i has run
\* floor(T / i) times, give or take one, whatever the other jobs do
\* (7 and 5 times after 35 s for the intervals 5 and 7).
C14_TickCounts ==
    config = SchedConfig =>
        \A j \in SampledJobs :
            /\ runs[j] >= (now \div Interval(j, config)) - 1
            /\ runs[j] <= (now \div Interval(j, config)) + 1

\* C15: in the main loop the jobs that do work on a tick are those the
\* current (refreshed) configuration asks for.
C15_JobsFollowSettings ==
    (pc = "main_loop" /\ sched_pc = "loop") =>
        {j \in jobs : JobEnabled(j, config)} = setup_schedules(config)

TickStarts == sched_pc = "next" /\ pending' # pending

\* C16: once stop_event is set no job starts a new tick.
C16_NoTickAfterStop ==
    [][ (stop_event /\ Alive) => ~TickStarts ]_vars

UploadEndpoints == {"upload-screenshot", "log-activity"}

\* C18: once stop_event is set no upload request is started.
C18_NoUploadAfterStop ==
    [][ (stop_event /\ Alive) => net' \notin UploadEndpoints ]_vars

\* C19: whatever a tick's outcome (capture error, network error, non-200
\* response, no credential), the job returns to run_pending: the scheduler
\* thread goes on with the next due job or the next pass, the main thread is
\* not touched, and every job stays registered.  The scheduler thread ends
\* only after stop_event was set.
C19_FailuresStayInJob ==
    [][ /\ (Alive /\ sched_pc \in {"next", "upload", "in_flight"} /\ sched_pc' # sched_pc
             /\ sched_pc' # "killed") =>
              /\ sched_pc' \in {"loop", "next", "upload", "in_flight"}
              /\ jobs' = jobs
              /\ pc' = pc
              /\ exit_code' = exit_code
              /\ pending' \subseteq pending
        /\ (Alive' /\ sched_pc' = "done") => stop_event'
        /\ (Alive /\ Alive') => jobs \subseteq jobs'
      ]_vars

\* C19 witness: a job's request was answered 401/403 (the initial fetch had
\* succeeded), and the scheduler thread is back in its loop with the
\* controller running and the jobs registered.
C19_RunningAfterFailedTick ==
    /\ pc = "main_loop"
    /\ ~stop_event
    /\ sched_pc = "loop"
    /\ auth_rejected
    /\ "fetch_warning" \notin log
    /\ {"activity", "heartbeat", "settings"} \subseteq jobs

C20_AtMostOnce ==
    /\ Len(uploads) <= 1
    /\ (uploads # <<>>) => apc["flush"] # "upload"
    /\ (uploads = <<"failed">> /\ activity_lock = "free") =>
          /\ keystroke_count = taken["key"]
          /\ mouse_click_count = taken["mouse"]

\* C20 witness: the request of a sample with a keystroke in it has failed, the
\* next flush has begun, and the counter is back at zero.
C20_FailedSampleDropped ==
    /\ uploads = <<"failed">>
    /\ sample.keystrokes = 1
    /\ apc["flush"] = "acquire"
    /\ keystroke_count = 0

\* The pairing a config holds: the credential, the owning-account identifier
\* and the pairing-complete flag
Pairing(cfg) == <<cfg.agent_token, cfg.user_pk, cfg.first_run_complete>>

\* A step of a process that is past its pairing flow
AfterPairingStep ==
    pc \in {"fetch_initial", "check_active", "start_listeners", "setup_schedules",
            "start_thread", "main_loop", "sd_begin", "sd_listeners", "sd_join", "sd_exit"}

\* C21: no step of a paired process after its pairing flow (a response to an
\* authenticated call, 401/403 included, a job's failure, a signal, shutdown)
\* changes the credential, the account identifier or the pairing-complete
\* flag, in the config in memory or in the stored record.
C21_NeverUnpairs ==
    [][ (AfterPairingStep /\ IsPaired(config) /\ IsPaired(load_config(config_file))) =>
            /\ Pairing(config') = Pairing(config)
            /\ Pairing(load_config(config_file')) = Pairing(load_config(config_file))
      ]_vars

\* C22: an authenticated operation (fetch settings, upload screenshot, upload
\* activity, heartbeat) called on a config without a credential returns at
\* once: no request is sent, the config and the stored record are untouched;
\* and no request to an authenticated endpoint is ever sent from a config
\* without a credential.
C22_NoCredentialNoRequest ==
    [][ /\ (sched_pc = "upload" /\ ~HasToken(config)) =>
              /\ net' = "none"
              /\ sched_pc' \in {"loop", "next"}
              /\ "no_credential" \in log'
              /\ config' = config
              /\ config_file' = config_file
        /\ (net' \in AuthEndpoints) => HasToken(config)
      ]_vars

\* C22 witness: on an agent without a credential an operation has returned
\* without a request.
C22_ReturnedWithoutRequest ==
    /\ ~HasToken(config)
    /\ "no_credential" \in log
    /\ sched_pc = "loop"
    /\ net = "none"

\* The keys the stored file does not hold
AbsentKeys(file) == IF file.kind = "json" THEN ConfigKeys \ DOMAIN file.data ELSE ConfigKeys

\* C23: a config that save_config has written is loaded back by load_config
\* equal in every field, and a config loaded from a file has the default value
\* under every key the file does not hold (and the file's value under the
\* others).
C23_RoundTrip ==
    [][ /\ (pc = "saved" /\ pc' = "loaded" /\ "save_error" \notin log) => config' = config
        /\ (pc' = "loaded") =>
              /\ DOMAIN config' = ConfigKeys
              /\ \A k \in AbsentKeys(config_file') : config'[k] = default_config[k]
              /\ \A k \in ConfigKeys \ AbsentKeys(config_file') :
                    config'[k] = config_file'.data[k]
      ]_vars

\* C23 witness: a paired config with the toggles of a settings response has
\* been saved and loaded back.
C23_LoadedBack ==
    /\ pc = "loaded"
    /\ log = {}
    /\ config_file = File("json", config)
    /\ IsPaired(config)
    /\ ~config.enable_screenshot_capture
    /\ config # load_config(PairedFile)

\* C24: whatever happens during save_config, the stored file afterwards is
\* either the complete previous record or the complete new one.
C24_SaveIsAtomic ==
    [][ (pc = "dirty" /\ pc' = "saved") =>
            \/ config_file' = config_file
            \/ config_file' = File("json", config)
      ]_vars

\* A step in which save_config logs its first error of the process
SaveFails == "save_error" \in log' /\ "save_error" \notin log

\* A step that may assign to self.config: the pairing response, the initial
\* settings fetch, the settings job's response
ConfigWriter ==
    \/ pc \in {"pair_recv", "fetch_initial"}
    \/ sched_pc = "in_flight" /\ cur_job = "settings"

\* C25: when save_config's write fails the error is logged and the caller goes
\* on as after a successful save (pairing reports success, run() goes on to the
\* monitoring_active test, the settings job returns to the scheduler), the
\* process does not exit, the config in memory holds the new values, and
\* nothing but a later pairing or settings response changes it again.
C25_SaveErrorNotPropagated ==
    [][ /\ SaveFails =>
              /\ exit_code' = exit_code
              /\ pc = "pair_recv" =>
                    /\ pc' = "fetch_initial"
                    /\ config' = PairApply(config, resp)
                    /\ IsPaired(config')
              /\ pc = "fetch_initial" =>
                    /\ pc' = "check_active"
                    /\ \E body \in SettingsBodies : config' = ApplySettings(config, body)
              /\ pc \notin {"pair_recv", "fetch_initial"} =>
                    /\ pc' = pc
                    /\ sched_pc = "in_flight" /\ sched_pc' \in {"loop", "next"}
                    /\ \E body \in SettingsBodies : config' = ApplySettings(config, body)
        /\ (Alive /\ config' # config) => ConfigWriter
      ]_vars

\* C25 witness: the agent paired in this process, the writes of its config
\* failed, and it is in its main loop with the paired config in memory only.
C25_RunningOnUnsavedConfig ==
    /\ pc = "main_loop"
    /\ {"pair_request", "save_error"} \subseteq log
    /\ IsPaired(config)
    /\ ~IsPaired(load_config(config_file))

\* C26: whatever the config file holds, the config load_config returns has
\* every key, with a usable value (the default where the file's value is
\* missing or invalid), and the start of the agent does not fail on it.
C26_LoadNeverFailsStartup ==
    /\ (pc = "run") =>
          /\ DOMAIN config = ConfigKeys
          /\ \A k \in NumberKeys : IsNumber(config[k])
    /\ "traceback" \notin log

\* log_activity is between its entry test and the end of its critical section
FlushMidExecution == apc["flush"] \in {"acquire", "build", "reset_keys", "reset_clicks"}

\* C27: the config does not change while log_activity is executing, so what
\* the job reads in one tick comes from one config: the entry test's answer
\* still holds when the sample is built, and the sample's zeroing agrees with
\* the toggles the job was entered with.
C27_JobSeesOneConfig ==
    /\ FlushMidExecution => JobEnabled("activity", config)
    /\ InFlushSection =>
          /\ config.enable_keystroke_logging \/ sample.keystrokes = 0
          /\ config.enable_mouse_logging \/ sample.mouse_clicks = 0
          /\ sample = ActivityData(config, sample.timestamp_start, tmp["flush"],
                                   keystroke_count, mouse_click_count)
             \/ apc["flush"] = "reset_clicks"

\* C27 witness: a settings response has disabled mouse logging after a sample
\* with a click was built, and the next run of log_activity is building its
\* sample under the new config.
C27_FlushAfterRefresh ==
    /\ apc["flush"] = "build"
    /\ sample.mouse_clicks >= 1
    /\ ~config.enable_mouse_logging
    /\ config.enable_keystroke_logging

\* log_activity has built its sample and not yet returned
SampleBuilt == apc["flush"] \in {"reset_keys", "reset_clicks", "upload"}

\* C28: the sample log_activity builds and sends reports 0 keystrokes when
\* keystroke logging is disabled in the config of that flush and 0 clicks when
\* mouse logging is disabled, whatever the counters held.
C28_DisabledReportedAsZero ==
    /\ SampleBuilt =>
          /\ ~config.enable_keystroke_logging => sample.keystrokes = 0
          /\ ~config.enable_mouse_logging => sample.mouse_clicks = 0
    /\ apc["flush"] = "reset_keys" =>
          /\ config.enable_keystroke_logging => sample.keystrokes = keystroke_count
          /\ config.enable_mouse_logging => sample.mouse_clicks = mouse_click_count

\* C28 witness: a click was counted, mouse logging was then disabled, and the
\* sample just built reports no click.
C28_CountedButReportedZero ==
    /\ apc["flush"] = "reset_keys"
    /\ ~config.enable_mouse_logging
    /\ mouse_click_count >= 1
    /\ sample.mouse_clicks = 0

\* C29: every key press and every click delivered to its callback is counted,
\* whether or not the capability is enabled in the config: the callback goes
\* on to take the lock and increment its counter.
C29_CountedWhileDisabled ==
    [][ \A t \in {"key", "mouse"} :
          (apc[t] = "called" /\ apc'[t] # "called") => apc'[t] = "acquire"
      ]_vars

\* C30: every sample log_activity builds has an end time strictly after its
\* start time and counts that are not negative (and the counters themselves
\* never are).
C30_WindowAndCountsValid ==
    /\ sample # NoSample =>
          /\ sample.timestamp_end > sample.timestamp_start
          /\ sample.keystrokes >= 0
          /\ sample.mouse_clicks >= 0
    /\ SampleBuilt => sample # NoSample
    /\ keystroke_count >= 0
    /\ mouse_click_count >= 0

\* C30 witness: the second flush has built its sample, with a keystroke in it;
\* its window starts where the first one ended.
C30_SecondWindow ==
    /\ apc["flush"] = "reset_keys"
    /\ sample.timestamp_start >= 1
    /\ sample.keystrokes >= 1

ScreenshotTickEnds ==
    /\ cur_job = "screenshot"
    /\ sched_pc \in {"upload", "in_flight"}
    /\ sched_pc' \in {"loop", "next"}

PairReturnsFalse == pc = "pair_recv" /\ pc' = "setup_failed"

\* C32: when pair_with_server returns False the credential, the account
\* identifier and the pairing-complete flag are what they were before the
\* attempt, in memory and in the stored record.
C32_FailedPairChangesNothing ==
    [][ PairReturnsFalse =>
            /\ Pairing(config') = Pairing(config)
            /\ config_file' = config_file
      ]_vars

SettingsJobReturns == sched_pc = "in_flight" /\ cur_job = "settings" /\ sched_pc' # sched_pc

\* C33: fetch_settings_from_server changes the config and the stored record
\* only when it holds a credential and the response is 200: for every other
\* outcome both are left as they were, and when the settings job does change
\* one of them the new config is the old one updated from a response body and
\* the record is what save_config made of it.
C33_FailedFetchChangesNothing ==
    [][ /\ \A status \in AuthStatuses, body \in SettingsBodies, io \in SaveOutcomes :
              ~FetchOk(config, status) =>
                  /\ FetchConfig(config, status, body) = config
                  /\ FetchFile(config, config_file, status, body, io) = config_file
        /\ (config' # config \/ config_file' # config_file) =>
              /\ SettingsJobReturns
              /\ HasToken(config)
              /\ \E body \in SettingsBodies, io \in SaveOutcomes :
                    /\ config' = ApplySettings(config, body)
                    /\ config_file' = save_config(config', config_file, io)
      ]_vars

\* C33 witness: only fetch_settings_from_server is called, on a stored record
\* with two keys; a call was answered 401/403 and the record and the config
\* loaded from it are untouched.
C33_UntouchedAfterRejectedFetch ==
    /\ jobs = {"settings"}
    /\ auth_rejected
    /\ sched_pc = "loop"
    /\ config_file = File("json", [agent_token |-> ServerAgentToken, first_run_complete |-> TRUE])
    /\ config = load_config(config_file)
    /\ "save_error" \notin log

AnyToggle(cfg) ==
    cfg.enable_screenshot_capture \/ cfg.enable_keystroke_logging \/ cfg.enable_mouse_logging

InitialFetchSucceeds ==
    pc = "fetch_initial" /\ pc' = "check_active" /\ "fetch_warning" \notin log'

\* C34: after a successful settings fetch the config's monitoring_active flag
\* equals the OR of the three capability toggles the same fetch stored,
\* whatever keys the response held.
C34_ActiveIsOrOfToggles ==
    [][ InitialFetchSucceeds => (config'.monitoring_active <=> AnyToggle(config')) ]_vars

SampleProduced == apc["flush"] = "build" /\ apc'["flush"] = "reset_keys"

\* C35: the windows of the samples log_activity produces are contiguous and
\* do not overlap: each sample starts where the sample produced before it
\* ended (the first one at the agent's construction, time 0), also when runs
\* in between were skipped with both input capabilities disabled.
C35_WindowsContiguous ==
    [][ SampleProduced =>
          /\ sample'.timestamp_start = sample.timestamp_end
          /\ sample'.timestamp_end >= sample'.timestamp_start ]_vars

\* C35 witness: the second sample is built in the third run of the job, the
\* second run having been skipped; it starts at 1, where the first one ended.
C35_SampleAfterSkippedRun ==
    /\ apc["flush"] = "reset_keys"
    /\ runs["activity"] = 2
    /\ sample.timestamp_start = 1
    /\ sample.timestamp_end = 3
    /\ config.activity_log_interval_seconds = 1

UploadPending == apc["flush"] = "upload"

\* C36: the activity upload's request is never made while log_activity holds
\* activity_lock: the lock is released before upload_activity starts, so the
\* input callbacks can take it while the request is under way.
C36_UploadOutsideLock ==
    /\ UploadPending => activity_lock # "flush"
    /\ net = "log-activity" => activity_lock # "flush"

\* C36 witness: upload_activity is about to send while on_key_press holds the
\* lock and counts a keystroke for the next sample.
C36_CallbackLocksDuringUpload ==
    /\ UploadPending
    /\ activity_lock = "key"
    /\ apc["key"] = "write"

PastInitialSetup ==
    pc \in {"fetch_initial", "check_active", "start_listeners", "setup_schedules",
            "start_thread", "main_loop"}

Monitoring ==
    \/ keyboard_listener = "started"
    \/ mouse_listener = "started"
    \/ jobs # {}
    \/ sched_pc # "none"
    \/ cur_job # None

\* C37: no input listener is started, no job is registered or run and no
\* authenticated request is sent unless the config holds a credential: run()
\* goes past initial_setup only when it returned True, and then agent_token
\* is set.
C37_CredentialBeforeMonitoring ==
    /\ PastInitialSetup => HasToken(config)
    /\ Monitoring => HasToken(config)
    /\ net \notin {"none", "pair"} => HasToken(config)

\* C37 witness: started on the file without a credential, the agent has paired
\* and a scheduled job is sending its request.
C37_JobRunsAfterPairing ==
    /\ config_file.kind = "json"
    /\ "pair_request" \in log
    /\ keyboard_listener = "started"
    /\ cur_job # None
    /\ net \notin {"none", "pair"}
    /\ HasToken(config)

Answered200(r) == apc[r] = "200"

\* C38: of two Pair requests that carry the same valid pairing code and are
\* served at once, at most one is answered with a credential.
C38_OneCredentialPerCode ==
    \A r1, r2 \in Requests :
        (r1 # r2 /\ Answered200(r1) /\ Answered200(r2)) => tmp[r1].token # tmp[r2].token

\* The thread x has an agent that is being started or is running
AgentAlive(x) == ProcessAlive /\ Pos(x) \in {"init", "mark", "run"}

\* C39: under run_as_service at most one DesktopAgent instance is being
\* started or running at any time.
C39_AtMostOneAgent ==
    \A x, y \in Executors : (AgentAlive(x) /\ AgentAlive(y)) => x = y

====
